---- MODULE Spec2Model ----
(***************************************************************************)
(* The Yoink room engine of the realtime server (server/src/index.ts, kept *)
(* here as src/unnamed/part_005) with its scoring helpers                  *)
(* (src/server/src/yoink-scoring.ts).                                      *)
(*                                                                         *)
(* Node runs every socket handler and every timer callback to completion   *)
(* on one thread, so each handler and each callback is one action.  Time   *)
(* is Date.now() in milliseconds.  A timer never fires before it is due;   *)
(* it may fire after it is due (Advance).                                  *)
(*                                                                         *)
(* The room's gameMode stays "yoink": the settings:update payloads are the *)
(* ones of the event protocol (rounds, roundDurationSec, intermissionSec,  *)
(* minLen), so the classic drip-and-surge mode is never entered.           *)
(* Player.words and Player.hand are written and never read in yoink mode   *)
(* and are left out, as is the feed text of word:accepted.                 *)
(***************************************************************************)
EXTENDS Integers, Sequences, FiniteSets, TLC

VARIABLES
  now,        \* Date.now(), ms
  rooms,      \* the rooms Map: room code -> RoomState
  socks,      \* per connection: open or closed, the closure's roomId, socket.io rooms joined
  ev,         \* the event or callback handled by the last step
  out,        \* the messages that step emitted, in order
  plan,       \* what the clients do in this behaviour (see Plans)
  idle,       \* instants passed since the clients were last stirred
  lateUsed,   \* how many times the clock was read past a timer's due time
  contest,    \* per room and slot: the yoink attempts since the slot was last filled
  sent,       \* how many events of each kind the clients have sent
  buckets     \* the rate limiter's Map: socket id -> tokens (in 200ths) and last refill

vars == <<now, rooms, socks, ev, out, plan, idle, lateUsed, contest, sent, buckets>>

-----------------------------------------------------------------------------
(* Program constants *)

GridSize == 16
BankCap == 7
CooldownMs == 500
PollMs == 500
TickMs == 1000
MinSpawnMs == 500
MaxSpawnMs == 10000
DefaultRounds == 3
DefaultRoundDurationSec == 60
DefaultIntermissionSec == 10
DefaultMinLen == 3
MaxWordLen == 7
BucketCap == 10
BucketRate == 5

(* Bounds of the model *)

Boot == 1000          \* Date.now() when the first connection arrives
MaxLate == 1          \* late clock readings per behaviour
MaxJoins == 3         \* lobby:join events per behaviour
MaxStarts == 2        \* game:start events per behaviour
MaxSettings == 1      \* settings:update events per behaviour
LifeSpan == 47000     \* plan "life": how long the clock runs
RoomsSpan == 2000     \* plan "rooms"
RaceSpan == 11000     \* plan "race"
RaceWindow == 0       \* plan "race": instants after a stir during which clients send
RaceLeaves == 1       \* plan "race": disconnects per behaviour
RaceYoinks == 3       \* plan "race": tile:yoink events per behaviour
FillSpan == 11000     \* plan "fill"
FillYoinks == 12      \* plan "fill": tile:yoink events per behaviour
MaxSubmits == 2       \* plan "fill": word:submit events per behaviour
MatchSpan == 34000    \* plan "match"
MatchYoinks == 15     \* plan "match": tile:yoink events per behaviour
PairSpan == 8000      \* plan "pair"
PairYoinks == 9       \* plan "pair": tile:yoink events per behaviour
PairFirst == 6        \* plan "pair": tile:yoink events of the first player
PairSubmits == 3      \* plan "pair": word:submit events per behaviour
FloodSpan == 1000     \* plan "flood"
StraySpan == 1000     \* plan "stray"
FinishSpan == 61000   \* plan "finish": two rounds of 15 s and an intermission of 30 s
FinishSettings == 2   \* plan "finish": settings:update events per behaviour
FinishLeaves == 1     \* plan "finish": disconnects per behaviour
FinishYoinks == 1     \* plan "finish": tile:yoink events per behaviour
FinishSubmits == 1    \* plan "finish": word:submit events per behaviour
StrayYoinks == 3      \* plan "stray": tile:yoink events per behaviour
FiveSpan == 88000     \* plan "five": five rounds of 15 s, four intermissions of 3 s
FiveTiles == 4        \* plan "five": tiles taken per round
FiveYoinks == 20      \* plan "five": tile:yoink events per behaviour
FiveSubmits == 5      \* plan "five": word:submit events per behaviour
StrayStarts == 2      \* plan "stray": game:start events per behaviour
FloodSubmits == 13    \* plan "flood": word:submit events per behaviour
FloodYoinks == 1      \* plan "flood": tile:yoink events per behaviour
TuneSpan == 1000      \* plan "tune"
TuneSettings == 2     \* plan "tune": settings:update events per behaviour

Conns == {"c1", "c2"}
RoomCodes == {"A", "B"}
Null == "null"
Undefined == "undefined"

Alphabet == {"A","B","C","D","E","F","G","H","I","J","K","L","M",
             "N","O","P","Q","R","S","T","U","V","W","X","Y","Z"}

Slots == 0 .. (GridSize - 1)

Min(S) == CHOOSE x \in S : \A y \in S : x <= y
MathMax(a, b) == IF a >= b THEN a ELSE b
MathMin(a, b) == IF a <= b THEN a ELSE b
\* Math.round of a number given in tenths
MathRound10(x10) == (x10 + 5) \div 10

-----------------------------------------------------------------------------
(* Inputs *)

\* lobby:join { room, name }
JoinRooms(pl, c) == IF c = "c1" \/ pl # "rooms" THEN {"A"} ELSE {"A", "B"}
JoinName(c) == IF c = "c1" THEN "Zed" ELSE "Amy"

\* settings:update payloads; a field that is absent is None, a number is in tenths
None == -1
SettingsInputs ==
  { [rounds |-> 20,   roundDurationSec |-> 10,  intermissionSec |-> 0,   minLen |-> None],
    [rounds |-> None, roundDurationSec |-> 146, intermissionSec |-> 990, minLen |-> 14] }
\* plan "tune": values below, inside and above each range, halves and negatives
TuneInputs ==
  { [rounds |-> 0,    roundDurationSec |-> -50,  intermissionSec |-> 25,   minLen |-> 65],
    [rounds |-> 54,   roundDurationSec |-> 3004, intermissionSec |-> 304,  minLen |-> None],
    [rounds |-> None, roundDurationSec |-> None, intermissionSec |-> None, minLen |-> 40],
    [rounds |-> 60,   roundDurationSec |-> 149,  intermissionSec |-> None, minLen |-> -15] }
\* plan "five": five short rounds
FiveInputs ==
  { [rounds |-> 50, roundDurationSec |-> 10, intermissionSec |-> 0, minLen |-> None] }
\* plan "match" plays two short rounds, and so does plan "finish", whose first
\* update comes before the start
SettingsFor(pl) ==
  IF pl = "match" \/ (pl = "finish" /\ sent["settings"] = 0)
  THEN {p \in SettingsInputs : p.rounds = 20}
  ELSE IF pl = "five" THEN FiveInputs
  ELSE IF pl = "tune" THEN SettingsInputs \cup TuneInputs
  ELSE SettingsInputs

\* tile:yoink { index }: an integer, a fraction (in tenths), NaN or no index at all
IntIndex(i) == [type |-> "number", v10 |-> 10 * i, nan |-> FALSE]
\* plan "stray": 1.5, 16, no index, and the string "3"
StrayIndices ==
  { [type |-> "number", v10 |-> 15, nan |-> FALSE], IntIndex(GridSize),
    [type |-> "undefined", v10 |-> 0, nan |-> FALSE],
    [type |-> "string", v10 |-> 30, nan |-> FALSE] }
YoinkBase(c) == IF c = "c1" THEN 0 ELSE 7
ContestSlot == GridSize - 1

\* word:submit { word }: upper-case words, letter by letter
SubmitWords ==
  { <<"J","E","S","T">>, <<"T","I","N">>, <<"B","O","X">>, <<"I","N">>, <<"T","E","J","S">>,
    <<"J","E","S","T","I","N","G">>, <<"J","E","S","T","I","N","G","S">> }
SubmitInputs(pl) ==
  IF pl = "match" THEN { <<"J","E","S","T">> }
  ELSE IF pl = "pair" THEN { <<"C","A","T">> }
  ELSE IF pl \in {"flood", "finish", "five"} THEN { <<"J","E","S","T">> }
  ELSE SubmitWords
\* the payload of word:submit: the word, and the bank positions a client may
\* add to it (1-based here), or none
NoIndices == [given |-> FALSE, at |-> << >>]
Indices(at) == [given |-> TRUE, at |-> at]
SubmitPayloads(pl) ==
  { [word |-> w, indices |-> NoIndices] : w \in SubmitInputs(pl) }
    \cup (IF pl \in {"match", "pair", "flood", "finish", "five"} THEN {}
          ELSE { [word |-> <<"T","I","N">>, indices |-> Indices(<<1, 2, 3>>)] })

\* DICT: the built-in fallback list and the words of the loaded lists that matter here
DICT == { <<"T","E","A","M">>, <<"B","O","X">>, <<"S","T","O","N","E">>, <<"R","U","S","H">>,
          <<"J","E","S","T">>, <<"T","I","N">>, <<"J","E","S","T","I","N","G">>,
          <<"C","A","T">> }

-----------------------------------------------------------------------------
(* yoink-scoring.ts *)

\* LETTER_WEIGHTS, in the order Object.entries lists it
LETTER_WEIGHTS ==
  << <<"A", 9>>, <<"B", 2>>, <<"C", 2>>, <<"D", 4>>, <<"E", 12>>, <<"F", 2>>, <<"G", 3>>,
     <<"H", 2>>, <<"I", 9>>, <<"J", 1>>, <<"K", 1>>, <<"L", 4>>, <<"M", 2>>, <<"N", 6>>,
     <<"O", 8>>, <<"P", 2>>, <<"Q", 1>>, <<"R", 6>>, <<"S", 4>>, <<"T", 6>>, <<"U", 4>>,
     <<"V", 2>>, <<"W", 2>>, <<"X", 1>>, <<"Y", 2>>, <<"Z", 1>> >>

RECURSIVE WeightUpTo(_)
WeightUpTo(k) == IF k = 0 THEN 0 ELSE WeightUpTo(k - 1) + LETTER_WEIGHTS[k][2]
totalWeight == WeightUpTo(Len(LETTER_WEIGHTS))

\* the loop of weightedRandomLetter from entry k on; r10 is r in tenths
RECURSIVE PickLetter(_, _)
PickLetter(k, r10) ==
  IF k > Len(LETTER_WEIGHTS) THEN "E"
  ELSE IF r10 - 10 * LETTER_WEIGHTS[k][2] <= 0 THEN LETTER_WEIGHTS[k][1]
  ELSE PickLetter(k + 1, r10 - 10 * LETTER_WEIGHTS[k][2])

\* weightedRandomLetter with a loop that stops one entry early and no fallback
RECURSIVE PickLetterShort(_, _)
PickLetterShort(k, r10) ==
  IF k >= Len(LETTER_WEIGHTS) THEN Undefined
  ELSE IF r10 - 10 * LETTER_WEIGHTS[k][2] <= 0 THEN LETTER_WEIGHTS[k][1]
  ELSE PickLetterShort(k + 1, r10 - 10 * LETTER_WEIGHTS[k][2])
weightedRandomLetterShort(r10) == PickLetterShort(1, r10)

\* weightedRandomLetter() when Math.random() * totalWeight is r10 tenths
weightedRandomLetter(r10) == PickLetter(1, r10)

\* a value of Math.random() * totalWeight, in tenths, that draws the given letter
DrawFor(letter) ==
  LET k == CHOOSE j \in 1 .. Len(LETTER_WEIGHTS) : LETTER_WEIGHTS[j][1] = letter
  IN  10 * WeightUpTo(k) - 5

\* the draws of a round-start fill, slot by slot
FillDraws ==
  LET letters == << "J","E","S","T","I","N","G","C","A","T","C","A","T","C","A","T" >>
  IN  [i \in 1 .. Len(letters) |-> DrawFor(letters[i])]
\* the draws of a spawn: the lowest and the highest value Math.random() gives
SpawnDraws == {0, 10 * totalWeight - 1}

\* spawnIntervalMs(n) for n < 16, in thirds of a millisecond
SpawnIntervalMs3(n) == 3 * MinSpawnMs + ((MaxSpawnMs - MinSpawnMs) * n) \div 5

\* spawnIntervalMs(currentTileCount), in thirds of a millisecond
Infinity == -1
\* spawnIntervalMs that stops one tile early
spawnIntervalMsEarly(currentTileCount) ==
  IF currentTileCount >= 15 THEN Infinity ELSE SpawnIntervalMs3(currentTileCount)

spawnIntervalMs(currentTileCount) ==
  IF currentTileCount >= 16 THEN Infinity ELSE SpawnIntervalMs3(currentTileCount)

\* setTimeout truncates its delay to whole milliseconds
TimeoutDelay(ms3) == ms3 \div 3

\* ROUND_MULTIPLIERS, in tenths
ROUND_MULTIPLIERS == << 10, 12, 15 >>

YOINK_POINTS(ch) ==
  IF ch \in {"J","Q","X","Z"} THEN 30
  ELSE IF ch \in {"B","C","F","H","K","M","P","V","W","Y"} THEN 20
  ELSE IF ch \in Alphabet THEN 10
  ELSE 0

RECURSIVE LetterSum(_)
LetterSum(word) == IF word = << >> THEN 0 ELSE YOINK_POINTS(Head(word)) + LetterSum(Tail(word))

\* String.prototype.toUpperCase, letter by letter
UpperCase == << "A","B","C","D","E","F","G","H","I","J","K","L","M",
               "N","O","P","Q","R","S","T","U","V","W","X","Y","Z" >>
LowerCase == << "a","b","c","d","e","f","g","h","i","j","k","l","m",
               "n","o","p","q","r","s","t","u","v","w","x","y","z" >>
toUpperCase(word) ==
  [k \in 1 .. Len(word) |->
     IF \E j \in 1 .. Len(LowerCase) : LowerCase[j] = word[k]
     THEN UpperCase[CHOOSE j \in 1 .. Len(LowerCase) : LowerCase[j] = word[k]]
     ELSE word[k]]

\* scoreYoinkWord that cuts the product down to a whole number
scoreYoinkWordFloor(word, m10) ==
  LET roundMultiplier == IF m10 = None THEN 10 ELSE m10
  IN  (2 * LetterSum(toUpperCase(word)) * (5 + Len(word)) * roundMultiplier) \div 100

\* scoreYoinkWord(word, m): Math.round(letterSum * (1 + 0.20 * length) * m), m in
\* tenths, 1.0 when the argument is absent
scoreYoinkWord(word, m10) ==
  LET roundMultiplier == IF m10 = None THEN 10 ELSE m10
  IN  (2 * LetterSum(toUpperCase(word)) * (5 + Len(word)) * roundMultiplier + 50) \div 100

-----------------------------------------------------------------------------
(* Timers *)

NoTimer == [on |-> FALSE, kind |-> "none", due |-> 0]
Timer(kind, due) == [on |-> TRUE, kind |-> kind, due |-> due]

countPoolTiles(pool) == Cardinality({i \in Slots : pool[i] # Null})

\* scheduleNext() with the longest interval whatever the grid holds
scheduleNextSlow(r, t) ==
  IF countPoolTiles(r.yoinkPool) >= GridSize \/ r.phase # "playing"
  THEN IF r.phase = "playing" THEN Timer("poll", t + PollMs) ELSE NoTimer
  ELSE Timer("spawn", t + MaxSpawnMs)

\* scheduleNext() inside startSpawnTimer
scheduleNext(r, t) ==
  IF countPoolTiles(r.yoinkPool) >= GridSize \/ r.phase # "playing"
  THEN IF r.phase = "playing" THEN Timer("poll", t + PollMs) ELSE NoTimer
  ELSE Timer("spawn", t + TimeoutDelay(spawnIntervalMs(countPoolTiles(r.yoinkPool))))

\* the timeout r.spawnTimer refers to is pending no more: it has been cleared, or
\* it has fired
spawnTimerGone(r) ==
  [r EXCEPT !.spawnTimer = NoTimer,
            !.spawnTimeouts = IF r.spawnTimer.on THEN @ - 1 ELSE @]

\* r.spawnTimer = setTimeout(...) in scheduleNext()
setSpawnTimer(r, t) ==
  LET timer == scheduleNext(r, t)
  IN  [r EXCEPT !.spawnTimer = timer,
                !.spawnTimeouts = IF timer.on THEN @ + 1 ELSE @]

\* startSpawnTimer that clears the pending timer and schedules nothing
startSpawnTimerCleared(r, t) == spawnTimerGone(r)

\* startSpawnTimer without the clearTimeout
startSpawnTimerNoClear(r, t) == setSpawnTimer(r, t)

\* startSpawnTimer(r): clear the pending timer, then scheduleNext()
startSpawnTimer(r, t) == setSpawnTimer(spawnTimerGone(r), t)

-----------------------------------------------------------------------------
(* State emission *)

OpenSet(sk) == {c \in Conns : sk[c].st = "open"}

roundMultiplier(r) ==
  LET roundIdx == MathMax(0, r.currentRound - 1)
  IN  IF roundIdx + 1 <= Len(ROUND_MULTIPLIERS) THEN ROUND_MULTIPLIERS[roundIdx + 1] ELSE 10

\* the multiplier of word:submit with the last entry for a round past the table
wordMultiplierLast(r) ==
  LET roundIdx == MathMax(0, r.currentRound - 1)
  IN  IF roundIdx + 1 <= Len(ROUND_MULTIPLIERS) THEN ROUND_MULTIPLIERS[roundIdx + 1]
      ELSE ROUND_MULTIPLIERS[Len(ROUND_MULTIPLIERS)]

\* word:submit: ROUND_MULTIPLIERS[roundIdx] ?? 1.0
wordMultiplier(r) ==
  LET roundIdx == MathMax(0, r.currentRound - 1)
  IN  IF roundIdx + 1 <= Len(ROUND_MULTIPLIERS) THEN ROUND_MULTIPLIERS[roundIdx + 1] ELSE 10

\* publicState with the players' round scores in the list, as in classic mode
publicStateWithScores(r, sid, t) ==
  [ players |-> [i \in 1 .. Len(r.order) |->
                   [id |-> r.order[i], name |-> r.players[r.order[i]].name,
                    score |-> r.players[r.order[i]].liveScore]],
    pool |-> r.yoinkPool,
    bank |-> IF sid \in DOMAIN r.players THEN r.players[sid].bank ELSE << >>,
    myScore |-> IF sid \in DOMAIN r.players THEN r.players[sid].liveScore ELSE 0,
    endsInMs |-> MathMax(0, (IF r.endAt = None THEN t ELSE r.endAt) - t),
    phase |-> r.phase,
    currentRound |-> r.currentRound,
    totalRounds |-> r.totalRounds,
    roundMultiplier |-> roundMultiplier(r),
    scoresHidden |-> (r.phase = "playing") ]

publicState(r, sid, t) ==
  [ players |-> [i \in 1 .. Len(r.order) |-> [id |-> r.order[i], name |-> r.players[r.order[i]].name]],
    pool |-> r.yoinkPool,
    bank |-> IF sid \in DOMAIN r.players THEN r.players[sid].bank ELSE << >>,
    myScore |-> IF sid \in DOMAIN r.players THEN r.players[sid].liveScore ELSE 0,
    endsInMs |-> MathMax(0, (IF r.endAt = None THEN t ELSE r.endAt) - t),
    phase |-> r.phase,
    currentRound |-> r.currentRound,
    totalRounds |-> r.totalRounds,
    roundMultiplier |-> roundMultiplier(r),
    scoresHidden |-> (r.phase = "playing") ]

Msg(e, to, body) == [ev |-> e, to |-> to, body |-> body]

\* emitStateToAll(r): one lobby:state per player of the room whose socket is connected
emitStateToAll(r, sk, t) ==
  LET live == SelectSeq(r.order, LAMBDA id : id \in OpenSet(sk))
  IN  [i \in 1 .. Len(live) |-> Msg("lobby:state", {live[i]}, publicState(r, live[i], t))]

\* io.to(room).emit: every connected socket that joined the socket.io room
Broadcast(code, sk, e, body) ==
  << Msg(e, {c \in OpenSet(sk) : code \in sk[c].joined}, body) >>

-----------------------------------------------------------------------------
(* Room lifecycle *)

DefaultSettings ==
  [ rounds |-> DefaultRounds, roundDurationSec |-> DefaultRoundDurationSec,
    intermissionSec |-> DefaultIntermissionSec, minLen |-> DefaultMinLen ]

\* the room ensureRoom(roomId) creates
NewRoom ==
  [ settings |-> DefaultSettings,
    order |-> << >>,
    players |-> << >>,
    yoinkPool |-> [i \in Slots |-> Null],
    yoinkPoolProps |-> {},     \* the keys of the array that name no element, all null
    spawnTimer |-> NoTimer,
    spawnTimeouts |-> 0,       \* the pending timeouts startSpawnTimer's closures have set
    started |-> FALSE,
    phase |-> "lobby",
    currentRound |-> 0,
    totalRounds |-> DefaultRounds,
    cumulativeScores |-> << >>,
    endAt |-> None,
    tick |-> NoTimer,
    imTimers |-> << >> ]

ensureRoom(code) == IF code \in DOMAIN rooms THEN rooms[code] ELSE NewRoom

NewPlayer(name) ==
  [ name |-> IF name = "" THEN "Player" ELSE name,
    liveScore |-> 0, words |-> << >>, bank |-> << >>, lastYoinkTime |-> 0 ]

\* Map.set on a function
MapSet(m, k, v) == [x \in (DOMAIN m) \cup {k} |-> IF x = k THEN v ELSE m[x]]
MapDelete(m, k) == [x \in (DOMAIN m) \ {k} |-> m[x]]

\* fillYoinkPool(pool)
fillYoinkPool(pool) ==
  [i \in Slots |-> IF pool[i] = Null THEN weightedRandomLetter(FillDraws[i + 1]) ELSE pool[i]]

\* r.yoinkPool = new Array(16).fill(null); fillYoinkPool(r.yoinkPool)
NewPool == fillYoinkPool([i \in Slots |-> Null])

\* startNextYoinkRound that leaves the banks and round scores as they are
startNextYoinkRoundKeep(r, t) ==
  LET r1 == [r EXCEPT
               !.currentRound = r.currentRound + 1,
               !.phase = "playing",
               !.started = TRUE,
               !.yoinkPool = NewPool,
               !.yoinkPoolProps = {},
               !.endAt = t + r.settings.roundDurationSec * 1000]
      r2 == startSpawnTimer(r1, t)
  IN  [r2 EXCEPT !.tick = Timer("tick", t + TickMs)]

\* startNextYoinkRound(r) up to its emitStateToAll
startNextYoinkRound(r, t) ==
  LET r1 == [r EXCEPT
               !.currentRound = r.currentRound + 1,
               !.phase = "playing",
               !.started = TRUE,
               !.yoinkPool = NewPool,
               !.yoinkPoolProps = {},
               !.players = [id \in DOMAIN r.players |->
                              [r.players[id] EXCEPT !.liveScore = 0, !.words = << >>,
                                                    !.bank = << >>,
                                                    !.lastYoinkTime = 0]],
               !.endAt = t + r.settings.roundDurationSec * 1000]
      r2 == startSpawnTimer(r1, t)
  IN  [r2 EXCEPT !.tick = Timer("tick", t + TickMs)]

\* startYoinkGame(r)
startYoinkGame(r, t) ==
  startNextYoinkRound(
    [r EXCEPT !.totalRounds = r.settings.rounds,
              !.currentRound = 0,
              !.cumulativeScores = [id \in DOMAIN r.players |-> 0]], t)

\* Array.prototype.sort((a, b) => b.cumulativeScore - a.cumulativeScore): stable
InsertDesc(sorted, x) ==
  LET k == Cardinality({i \in 1 .. Len(sorted) : sorted[i].cumulativeScore >= x.cumulativeScore})
  IN  SubSeq(sorted, 1, k) \o << x >> \o SubSeq(sorted, k + 1, Len(sorted))

RECURSIVE SortDesc(_)
SortDesc(s) ==
  IF s = << >> THEN << >>
  ELSE InsertDesc(SortDesc(SubSeq(s, 1, Len(s) - 1)), s[Len(s)])

\* endYoinkRound that overwrites the cumulative score with the round score
endYoinkRoundRoomOverwrite(r, t) ==
  LET cum == [id \in (DOMAIN r.cumulativeScores) \cup (DOMAIN r.players) |->
                IF id \in DOMAIN r.players THEN r.players[id].liveScore
                ELSE r.cumulativeScores[id]]
      r1 == [r EXCEPT !.cumulativeScores = cum]
  IN  IF r.currentRound >= r.totalRounds
      THEN [r1 EXCEPT !.phase = "finished", !.started = FALSE]
      ELSE [r1 EXCEPT !.phase = "intermission",
                      !.endAt = t + r.settings.intermissionSec * 1000,
                      !.imTimers = Append(@, t + r.settings.intermissionSec * 1000)]

\* endYoinkRound that refills the grid as the round ends
endYoinkRoundRoomRefill(r, t) ==
  LET cum == [id \in (DOMAIN r.cumulativeScores) \cup (DOMAIN r.players) |->
                IF id \in DOMAIN r.players
                THEN (IF id \in DOMAIN r.cumulativeScores THEN r.cumulativeScores[id] ELSE 0)
                     + r.players[id].liveScore
                ELSE r.cumulativeScores[id]]
      r1 == [r EXCEPT !.cumulativeScores = cum, !.yoinkPool = fillYoinkPool(@)]
  IN  IF r.currentRound >= r.totalRounds
      THEN [r1 EXCEPT !.phase = "finished", !.started = FALSE]
      ELSE [r1 EXCEPT !.phase = "intermission",
                      !.endAt = t + r.settings.intermissionSec * 1000,
                      !.imTimers = Append(@, t + r.settings.intermissionSec * 1000)]

\* endYoinkRound that sets no timeout for the next round
endYoinkRoundRoomNoTimeout(r, t) ==
  LET cum == [id \in (DOMAIN r.cumulativeScores) \cup (DOMAIN r.players) |->
                IF id \in DOMAIN r.players
                THEN (IF id \in DOMAIN r.cumulativeScores THEN r.cumulativeScores[id] ELSE 0)
                     + r.players[id].liveScore
                ELSE r.cumulativeScores[id]]
      r1 == [r EXCEPT !.cumulativeScores = cum]
  IN  IF r.currentRound >= r.totalRounds
      THEN [r1 EXCEPT !.phase = "finished", !.started = FALSE]
      ELSE [r1 EXCEPT !.phase = "intermission",
                      !.endAt = t + r.settings.intermissionSec * 1000]

\* endYoinkRound(r): the room afterwards
endYoinkRoundRoom(r, t) ==
  LET cum == [id \in (DOMAIN r.cumulativeScores) \cup (DOMAIN r.players) |->
                IF id \in DOMAIN r.players
                THEN (IF id \in DOMAIN r.cumulativeScores THEN r.cumulativeScores[id] ELSE 0)
                     + r.players[id].liveScore
                ELSE r.cumulativeScores[id]]
      r1 == [r EXCEPT !.cumulativeScores = cum]
  IN  IF r.currentRound >= r.totalRounds
      THEN [r1 EXCEPT !.phase = "finished", !.started = FALSE]
      ELSE [r1 EXCEPT !.phase = "intermission",
                      !.endAt = t + r.settings.intermissionSec * 1000,
                      !.imTimers = Append(@, t + r.settings.intermissionSec * 1000)]

\* endYoinkRound that emits the state before the round and game events
endYoinkRoundOutStateFirst(code, r, sk, t) ==
  LET r2 == endYoinkRoundRoom(r, t)
      roundResults == SortDesc([i \in 1 .. Len(r.order) |->
                         [ id |-> r.order[i], name |-> r.players[r.order[i]].name,
                           roundScore |-> r.players[r.order[i]].liveScore,
                           cumulativeScore |-> r2.cumulativeScores[r.order[i]] ]])
  IN  emitStateToAll(r2, sk, t)
      \o Broadcast(code, sk, "round:ended",
                   [round |-> r.currentRound, totalRounds |-> r.totalRounds,
                    leaderboard |-> roundResults])
      \o (IF r.currentRound >= r.totalRounds
          THEN Broadcast(code, sk, "game:ended", [leaderboard |-> roundResults])
          ELSE << >>)

\* endYoinkRound(r): the messages it emits, in order
endYoinkRoundOut(code, r, sk, t) ==
  LET r2 == endYoinkRoundRoom(r, t)
      roundResults == SortDesc([i \in 1 .. Len(r.order) |->
                         [ id |-> r.order[i], name |-> r.players[r.order[i]].name,
                           roundScore |-> r.players[r.order[i]].liveScore,
                           cumulativeScore |-> r2.cumulativeScores[r.order[i]] ]])
  IN  Broadcast(code, sk, "round:ended",
                [round |-> r.currentRound, totalRounds |-> r.totalRounds,
                 leaderboard |-> roundResults])
      \o (IF r.currentRound >= r.totalRounds
          THEN Broadcast(code, sk, "game:ended", [leaderboard |-> roundResults])
          ELSE << >>)
      \o emitStateToAll(r2, sk, t)

-----------------------------------------------------------------------------
(* The yoink attempts on a slot since it was last filled *)

NoContest == [i \in Slots |-> [tries |-> << >>, wins |-> 0]]
MaxTries == 3

Attempt(cs, i, c, ok, free) ==
  [cs EXCEPT ![i] = [tries |-> IF Len(@.tries) < MaxTries
                               THEN Append(@.tries, [c |-> c, ok |-> ok, free |-> free])
                               ELSE @.tries,
                     wins |-> @.wins + (IF ok THEN 1 ELSE 0)]]

-----------------------------------------------------------------------------
(* When the clients send *)

(***************************************************************************)
(* A plan bounds what the clients send in one behaviour: which connections *)
(* send, which events, how many of each, for how many instants after a     *)
(* stir (Stir below), and for how long the clock runs.                     *)
(*   life   one player; game starts and settings updates at the deadlines  *)
(*   rooms  two players joining, changing rooms and leaving                *)
(*   race   two players yoinking the same slots                            *)
(*   fill   one player yoinking slot after slot as soon as it may          *)
(*   match  two players set up a short game at boot; one of them fills its *)
(*          bank, plays words, and keeps sending between the rounds; the   *)
(*          timers are punctual                                            *)
(*   stray  one player yoinking with indices that name no slot             *)
(*   five   one player sets up five short rounds at boot and in each round *)
(*          takes four tiles and plays one word; the timers are punctual   *)
(*   finish two players; one short game is started at boot, and the        *)
(*          players join, update the settings, yoink, submit and leave on  *)
(*          the way (specification SpecFair only)                          *)
(***************************************************************************)
MaxIdle == 10
Kinds == {"join", "start", "settings", "disconnect", "yoink", "submit"}
Plans == {"life", "rooms", "race", "fill", "match", "pair", "flood", "tune", "stray", "five"}

PlanConns(pl) ==
  IF pl \in {"life", "fill", "flood", "tune", "stray", "five"} THEN {"c1"} ELSE Conns
PlanKinds(pl) ==
  CASE pl \in {"life", "tune"} -> {"join", "start", "settings"}
    [] pl = "rooms" -> {"join", "start", "disconnect"}
    [] pl = "race"  -> {"join", "start", "yoink", "disconnect"}
    [] pl = "stray" -> {"join", "start", "yoink"}
    [] pl = "fill"  -> {"join", "start", "yoink", "submit"}
    [] pl \in {"match", "five"} -> {"join", "start", "settings", "yoink", "submit"}
    [] pl \in {"pair", "flood"} -> {"join", "start", "yoink", "submit"}
    [] pl = "finish" -> Kinds
Window(pl) ==
  CASE pl = "race" -> RaceWindow [] pl \in {"fill", "match", "pair", "flood", "tune", "stray", "five"}
                                 -> MaxIdle
    [] OTHER -> 0
Span(pl) ==
  CASE pl = "life" -> LifeSpan [] pl = "rooms" -> RoomsSpan
    [] pl = "race" -> RaceSpan [] pl = "fill"  -> FillSpan
    [] pl = "match" -> MatchSpan [] pl = "pair" -> PairSpan
    [] pl = "flood" -> FloodSpan [] pl = "tune" -> TuneSpan
    [] pl = "stray" -> StraySpan [] pl = "finish" -> FinishSpan
    [] pl = "five" -> FiveSpan
MaxSent(pl, kind) ==
  CASE kind = "join" -> IF pl = "rooms" THEN MaxJoins ELSE Cardinality(PlanConns(pl))
    [] kind = "start" -> IF pl \in {"race", "fill", "match", "pair", "flood", "tune", "finish", "five"}
                         THEN 1
                         ELSE IF pl = "stray" THEN StrayStarts
                         ELSE MaxStarts
    [] kind = "settings" -> IF pl = "tune" THEN TuneSettings
                            ELSE IF pl = "finish" THEN FinishSettings ELSE MaxSettings
    [] kind = "disconnect" -> IF pl = "finish" THEN FinishLeaves
                              ELSE IF pl = "race" THEN RaceLeaves ELSE Cardinality(Conns)
    [] kind = "yoink" -> IF pl = "fill" THEN FillYoinks
                         ELSE IF pl = "match" THEN MatchYoinks
                         ELSE IF pl = "pair" THEN PairYoinks
                         ELSE IF pl = "flood" THEN FloodYoinks
                         ELSE IF pl = "stray" THEN StrayYoinks
                         ELSE IF pl = "finish" THEN FinishYoinks
                         ELSE IF pl = "five" THEN FiveYoinks ELSE RaceYoinks
    [] kind = "submit" -> IF pl = "pair" THEN PairSubmits
                          ELSE IF pl = "flood" THEN FloodSubmits
                          ELSE IF pl = "finish" THEN FinishSubmits
                          ELSE IF pl = "five" THEN FiveSubmits ELSE MaxSubmits

\* plan "match": both players join, c1 alone plays, and the game is set up at boot,
\* the settings before the start
Cast(c, kind) ==
  /\ plan = "match" => /\ kind = "join" \/ c = "c1"
                       /\ kind \in {"join", "settings", "start"} => now = Boot
                       /\ kind = "start" => sent["settings"] > 0
  \* plan "pair": the game is set up at boot once both have joined; the first
  \* player takes its tiles and plays its words, then the second player does
  /\ plan = "pair" => /\ kind \in {"join", "start"} => now = Boot
                      /\ kind = "start" => c = "c1" /\ sent["join"] = Cardinality(Conns)
                      /\ (kind = "yoink" /\ c = "c1") => sent["yoink"] < PairFirst
                      /\ (kind \in {"yoink", "submit"} /\ c # "c1") => sent["submit"] >= 2
  \* plan "flood": the game is started at boot, and the player sends word after
  \* word from then on
  /\ plan = "tune" => (kind = "join" => now = Boot)
  \* plan "finish": the first player starts the game at boot, after a settings
  \* update; then it yoinks and submits, the second player joins, the settings are
  \* updated again and a player leaves, in this order, each at any later stir
  /\ plan = "finish" =>
       /\ kind = "join" => IF c = "c1" THEN now = Boot ELSE sent["submit"] > 0
       /\ kind = "start" => now = Boot /\ sent["settings"] > 0
       /\ kind = "settings" => sent["start"] = 0 \/ sent["join"] = Cardinality(Conns)
       /\ kind \in {"yoink", "submit"} => c = "c1" /\ sent["start"] > 0
       /\ kind = "submit" => sent["yoink"] > 0
       /\ kind = "disconnect" => sent["settings"] = FinishSettings
  \* plan "race": a player leaves once the yoinks are sent
  /\ plan = "race" => (kind = "disconnect" => sent["yoink"] = RaceYoinks)
  \* plan "five": the game is set up at boot, the settings before the start
  /\ plan = "five" => /\ kind \in {"join", "settings", "start"} => now = Boot
                      /\ kind = "start" => sent["settings"] > 0
  \* plan "stray": the game is started at boot, and once more
  /\ plan = "stray" => (kind \in {"join", "start"} => now = Boot)
  /\ plan = "flood" => /\ kind \in {"join", "start"} => now = Boot
                       /\ kind \in {"yoink", "submit"} => sent["start"] > 0

CanSend(c, kind) ==
  /\ c \in PlanConns(plan)
  /\ Cast(c, kind)
  /\ kind \in PlanKinds(plan)
  /\ socks[c].st = "open"
  /\ idle <= Window(plan)
  /\ sent[kind] < MaxSent(plan, kind)

Sends(kind) == sent' = [sent EXCEPT ![kind] = @ + 1]

Event(type, c, code, arg) == [type |-> type, c |-> c, room |-> code, arg |-> arg]

-----------------------------------------------------------------------------
(* Socket handlers *)

\* socket.on("lobby:join")
Join(c, code) ==
  /\ CanSend(c, "join")
  /\ code \in JoinRooms(plan, c)
  /\ LET r0 == ensureRoom(code)
         r1 == IF c \in DOMAIN r0.players THEN r0
               ELSE [r0 EXCEPT !.order = Append(@, c),
                               !.players = MapSet(@, c, NewPlayer(JoinName(c))),
                               !.cumulativeScores = MapSet(@, c, 0)]
         sk == [socks EXCEPT ![c].roomId = code, ![c].joined = @ \cup {code}]
     IN  /\ rooms' = MapSet(rooms, code, r1)
         /\ socks' = sk
         /\ contest' = IF code \in DOMAIN rooms THEN contest ELSE MapSet(contest, code, NoContest)
         /\ out' = emitStateToAll(r1, sk, now)
  /\ ev' = Event("lobby:join", c, code, JoinName(c))
  /\ Sends("join")
  /\ UNCHANGED <<now, plan, idle, lateUsed, buckets>>

\* socket.on("game:start")
GameStart(c) ==
  /\ CanSend(c, "start")
  /\ socks[c].roomId # Null
  /\ LET code == socks[c].roomId
         r1 == startYoinkGame(rooms[code], now)
     IN  /\ rooms' = [rooms EXCEPT ![code] = r1]
         /\ contest' = [contest EXCEPT ![code] = NoContest]
         /\ out' = emitStateToAll(r1, socks, now) \o emitStateToAll(r1, socks, now)
         /\ ev' = Event("game:start", c, code, 0)
  /\ Sends("start")
  /\ UNCHANGED <<now, socks, plan, idle, lateUsed, buckets>>

\* the clamp without its upper end
ClampLow(lo, hi, x10) == MathMax(lo, MathRound10(x10))

Clamp(lo, hi, x10) == MathMax(lo, MathMin(hi, MathRound10(x10)))

\* socket.on("settings:update")
SettingsUpdate(c, p) ==
  /\ CanSend(c, "settings")
  /\ socks[c].roomId # Null
  /\ LET code == socks[c].roomId
         s == rooms[code].settings
         s1 == [ minLen |-> IF p.minLen # None THEN Clamp(2, 6, p.minLen) ELSE s.minLen,
                 rounds |-> IF p.rounds # None THEN Clamp(1, 5, p.rounds) ELSE s.rounds,
                 roundDurationSec |-> IF p.roundDurationSec # None
                                      THEN Clamp(15, 300, p.roundDurationSec)
                                      ELSE s.roundDurationSec,
                 intermissionSec |-> IF p.intermissionSec # None
                                     THEN Clamp(3, 30, p.intermissionSec)
                                     ELSE s.intermissionSec ]
         r1 == [rooms[code] EXCEPT !.settings = s1]
     IN  /\ rooms' = [rooms EXCEPT ![code] = r1]
         /\ out' = emitStateToAll(r1, socks, now)
         /\ ev' = Event("settings:update", c, code, p)
  /\ Sends("settings")
  /\ UNCHANGED <<now, socks, plan, idle, lateUsed, contest, buckets>>

\* a disconnect that puts the letters of the leaver's bank back on the grid
RECURSIVE putBack(_, _)
putBack(pool, bank) ==
  LET empties == {i \in Slots : pool[i] = Null}
  IN  IF bank = << >> \/ empties = {} THEN pool
      ELSE putBack([pool EXCEPT ![Min(empties)] = Head(bank)], Tail(bank))
deletePlayerTilesBack(r, c) ==
  [r EXCEPT !.players = MapDelete(@, c),
            !.order = SelectSeq(@, LAMBDA id : id # c),
            !.yoinkPool = IF c \in DOMAIN r.players THEN putBack(@, r.players[c].bank) ELSE @]

\* r.players.delete(playerId)
deletePlayer(r, c) ==
  [r EXCEPT !.players = MapDelete(@, c),
            !.order = SelectSeq(@, LAMBDA id : id # c)]

\* socket.on("disconnect")
Disconnect(c) ==
  /\ CanSend(c, "disconnect")
  /\ LET code == socks[c].roomId
         sk == [socks EXCEPT ![c].st = "closed", ![c].joined = {}]
     IN  /\ socks' = sk
         /\ ev' = Event("disconnect", c, code, 0)
         /\ IF code = Null
            THEN /\ out' = << >>
                 /\ rooms' = rooms
            ELSE LET r1 == deletePlayer(rooms[code], c)
                 IN  /\ rooms' = [rooms EXCEPT ![code] = r1]
                     /\ out' = emitStateToAll(r1, sk, now)
  /\ Sends("disconnect")
  /\ UNCHANGED <<now, plan, idle, lateUsed, contest, buckets>>

\* typeof index !== "number" || index < 0 || index > 15
BadIndex(x) == x.type # "number" \/ (~x.nan /\ (x.v10 < 0 \/ x.v10 > 10 * (GridSize - 1)))
\* index names one of the array's 16 elements
IsSlot(x) == x.type = "number" /\ ~x.nan /\ x.v10 % 10 = 0 /\ (x.v10 \div 10) \in Slots

\* the checks without the test for an empty slot
YoinkVerdictNoGone(r, p, i, t) ==
  IF Len(p.bank) >= BankCap THEN "bank full"
  ELSE IF t - p.lastYoinkTime < CooldownMs THEN "too fast"
  ELSE "ok"

\* the checks with the bank test off by one
YoinkVerdictBankOff(r, p, i, t) ==
  IF r.yoinkPool[i] = Null THEN "gone"
  ELSE IF Len(p.bank) > BankCap THEN "bank full"
  ELSE IF t - p.lastYoinkTime < CooldownMs THEN "too fast"
  ELSE "ok"

\* the checks with a reply for an empty slot
YoinkVerdictGoneTold(r, p, i, t) ==
  IF r.yoinkPool[i] = Null THEN "too fast"
  ELSE IF Len(p.bank) >= BankCap THEN "bank full"
  ELSE IF t - p.lastYoinkTime < CooldownMs THEN "too fast"
  ELSE "ok"

\* the checks of tile:yoink after the index check, for a slot of the grid
YoinkVerdict(r, p, i, t) ==
  IF r.yoinkPool[i] = Null THEN "gone"
  ELSE IF Len(p.bank) >= BankCap THEN "bank full"
  ELSE IF t - p.lastYoinkTime < CooldownMs THEN "too fast"
  ELSE "ok"

\* the same for an index that names no element: r.yoinkPool[index] is undefined
\* until a yoink has written null under that key
YoinkVerdictNoSlot(r, p, x, t) ==
  IF x \in r.yoinkPoolProps THEN "gone"
  ELSE IF Len(p.bank) >= BankCap THEN "bank full"
  ELSE IF t - p.lastYoinkTime < CooldownMs THEN "too fast"
  ELSE "ok"

\* the writes of a successful yoink with the tile put at the head of the bank
takeTileFront(r, c, x, tile, t) ==
  [r EXCEPT !.players[c].lastYoinkTime = t,
            !.players[c].bank = <<tile>> \o @,
            !.yoinkPool = IF IsSlot(x) THEN [@ EXCEPT ![x.v10 \div 10] = Null] ELSE @,
            !.yoinkPoolProps = IF IsSlot(x) THEN @ ELSE @ \cup {x}]

\* the writes of a successful yoink: lastYoinkTime, the slot, the bank
takeTile(r, c, x, tile, t) ==
  [r EXCEPT !.players[c].lastYoinkTime = t,
            !.players[c].bank = Append(@, tile),
            !.yoinkPool = IF IsSlot(x) THEN [@ EXCEPT ![x.v10 \div 10] = Null] ELSE @,
            !.yoinkPoolProps = IF IsSlot(x) THEN @ ELSE @ \cup {x}]

\* the early returns without the phase test
YoinkDroppedAnyPhase(r, c, x) == c \notin DOMAIN r.players \/ BadIndex(x)

\* the early returns of tile:yoink: phase, player, index
YoinkDropped(r, c, x) ==
  r.phase # "playing" \/ c \notin DOMAIN r.players \/ BadIndex(x)

\* socket.on("tile:yoink")
Yoink(c, x) ==
  /\ CanSend(c, "yoink")
  /\ socks[c].roomId # Null
  /\ LET code == socks[c].roomId
         r == rooms[code]
     IN
     /\ ev' = Event("tile:yoink", c, code, x)
     /\ IF YoinkDropped(r, c, x)
        THEN /\ out' = << >>
             /\ UNCHANGED <<rooms, contest>>
        ELSE
          LET p == r.players[c]
              slot == IsSlot(x)
              i == x.v10 \div 10
              verdict == IF slot THEN YoinkVerdict(r, p, i, now) ELSE YoinkVerdictNoSlot(r, p, x, now)
              tile == IF slot THEN r.yoinkPool[i] ELSE Undefined
              free == Len(p.bank) < BankCap /\ now - p.lastYoinkTime >= CooldownMs
          IN
          /\ contest' = IF slot
                        THEN [contest EXCEPT ![code] = Attempt(@, i, c, verdict = "ok", free)]
                        ELSE contest
          /\ IF verdict = "ok"
             THEN LET r1 == takeTile(r, c, x, tile, now)
                      r2 == startSpawnTimer(r1, now)
                  IN  /\ rooms' = [rooms EXCEPT ![code] = r2]
                      /\ out' = emitStateToAll(r2, socks, now)
                                \o Broadcast(code, socks, "tile:yoinked",
                                             [playerId |-> c, playerName |-> p.name,
                                              index |-> x, letter |-> tile])
             ELSE /\ rooms' = rooms
                  /\ out' = IF verdict = "gone" THEN << >>
                            ELSE << Msg("yoink:rejected", {c}, [reason |-> verdict]) >>
  /\ Sends("yoink")
  /\ UNCHANGED <<now, socks, plan, idle, lateUsed, buckets>>

\* the indices a connection sends
YoinkInputs(c) ==
  LET code == socks[c].roomId
      n == IF code # Null /\ c \in DOMAIN rooms[code].players
           THEN Len(rooms[code].players[c].bank) ELSE 0
      filled == IF code # Null THEN {i \in Slots : rooms[code].yoinkPool[i] # Null} ELSE {}
      high == {i \in filled : i >= BankCap}
  IN  IF plan \in {"fill", "match", "flood", "finish", "five"}
      THEN { IntIndex(IF filled = {} THEN 0 ELSE Min(filled)) }
      ELSE IF plan = "stray"
      THEN { IntIndex(IF filled = {} THEN 0 ELSE Min(filled)) } \cup StrayIndices
      ELSE IF plan = "pair" THEN { IntIndex(IF high = {} THEN 0 ELSE Min(high)) }
      ELSE { IntIndex(YoinkBase(c) + n), IntIndex(ContestSlot) }

\* c's bank holds n letters or more
BankHolds(c, n) ==
  /\ socks[c].roomId # Null
  /\ c \in DOMAIN rooms[socks[c].roomId].players
  /\ Len(rooms[socks[c].roomId].players[c].bank) >= n

\* a yoink by c would succeed now
WouldYoink(c) ==
  /\ CanSend(c, "yoink")
  /\ socks[c].roomId # Null
  /\ LET r == rooms[socks[c].roomId]
     IN  /\ r.phase = "playing"
         /\ c \in DOMAIN r.players
         /\ \E x \in YoinkInputs(c) :
              IsSlot(x) /\ YoinkVerdict(r, r.players[c], x.v10 \div 10, now) = "ok"

\* c has just yoinked the letter that filled its bank
JustFilled(c) ==
  /\ ev.type = "tile:yoink" /\ ev.c = c
  /\ \E k \in 1 .. Len(out) : out[k].ev = "tile:yoinked"
  /\ Len(rooms[ev.room].players[c].bank) = BankCap

\* c's room is between rounds at an instant that stirs the clients
OffRound(c) ==
  /\ idle = 0
  /\ socks[c].roomId # Null
  /\ rooms[socks[c].roomId].phase \in {"intermission", "finished"}

\* plan "fill": the player yoinks as soon as a yoink would succeed, and once more
\* on filling its bank; plan "match": as soon as a yoink would succeed, and
\* between the rounds
\* plan "five": c has not played its word of the round yet
WordDue(c) ==
  /\ socks[c].roomId # Null
  /\ rooms[socks[c].roomId].phase = "playing"
  /\ sent["submit"] < rooms[socks[c].roomId].currentRound
Eager ==
  \/ plan \in {"fill", "match", "pair"} /\ \E c \in Conns : WouldYoink(c)
  \/ plan = "five" /\ \E c \in Conns :
        /\ WordDue(c)
        /\ WouldYoink(c) \/ (CanSend(c, "submit") /\ BankHolds(c, FiveTiles))
Keen(c) ==
  /\ plan = "five" => WouldYoink(c) /\ WordDue(c) /\ ~BankHolds(c, FiveTiles)
  /\ plan = "fill" => WouldYoink(c) \/ JustFilled(c)
  /\ plan = "match" => WouldYoink(c) \/ OffRound(c)
  /\ plan = "pair" => WouldYoink(c)

-----------------------------------------------------------------------------
(* word:submit *)

\* allowSubmit(socketId): the verdict and the buckets Map afterwards
\* allowSubmit without the refill
allowSubmitNoRefill(b, sid, t) ==
  LET t0 == IF sid \in DOMAIN b THEN b[sid] ELSE [tokens |-> 200 * BucketCap, last |-> t]
  IN  IF t0.tokens >= 200
      THEN [ok |-> TRUE,  buckets |-> MapSet(b, sid, [tokens |-> t0.tokens - 200, last |-> t])]
      ELSE [ok |-> FALSE, buckets |-> MapSet(b, sid, [tokens |-> t0.tokens, last |-> t])]

allowSubmit(b, sid, t) ==
  LET t0 == IF sid \in DOMAIN b THEN b[sid] ELSE [tokens |-> 200 * BucketCap, last |-> t]
      tokens == MathMin(200 * BucketCap, t0.tokens + ((t - t0.last) * BucketRate) \div 5)
  IN  IF tokens >= 200
      THEN [ok |-> TRUE,  buckets |-> MapSet(b, sid, [tokens |-> tokens - 200, last |-> t])]
      ELSE [ok |-> FALSE, buckets |-> MapSet(b, sid, [tokens |-> tokens, last |-> t])]

\* Array.prototype.indexOf, 1-based; 0 when absent
IndexOf(s, ch) ==
  IF \E i \in 1 .. Len(s) : s[i] = ch THEN Min({i \in 1 .. Len(s) : s[i] = ch}) ELSE 0

\* splice(idx, 1)
Splice(s, idx) == SubSeq(s, 1, idx - 1) \o SubSeq(s, idx + 1, Len(s))

RECURSIVE canConsumeFromBank(_, _)
canConsumeFromBank(word, bank) ==
  IF word = << >> THEN TRUE
  ELSE LET idx == IndexOf(bank, Head(word))
       IN  IF idx = 0 THEN FALSE ELSE canConsumeFromBank(Tail(word), Splice(bank, idx))

\* consumeFromBank that drops as many letters as the word has from the head
consumeFromBankHead(word, bank) == SubSeq(bank, Len(word) + 1, Len(bank))

RECURSIVE consumeFromBank(_, _)
consumeFromBank(word, bank) ==
  IF word = << >> THEN bank
  ELSE LET idx == IndexOf(bank, Head(word))
       IN  consumeFromBank(Tail(word), IF idx # 0 THEN Splice(bank, idx) ELSE bank)

\* the checks with a word refused once the player has played it in the round
SubmitVerdictNoRepeat(r, p, word) ==
  IF word = << >> \/ \E k \in 1 .. Len(word) : word[k] \notin Alphabet THEN "silent"
  ELSE IF Len(word) < r.settings.minLen THEN "too short"
  ELSE IF Len(word) > MaxWordLen THEN "too long (max 7)"
  ELSE IF word \notin DICT THEN "not in dictionary"
  ELSE IF \E k \in 1 .. Len(p.words) : p.words[k].word = word THEN "already played"
  ELSE IF ~canConsumeFromBank(word, p.bank) THEN "not enough tiles in bank"
  ELSE "ok"

\* the checks with the upper bound one letter lower
SubmitVerdictMaxSix(r, p, word) ==
  IF word = << >> \/ \E k \in 1 .. Len(word) : word[k] \notin Alphabet THEN "silent"
  ELSE IF Len(word) < r.settings.minLen THEN "too short"
  ELSE IF Len(word) >= MaxWordLen THEN "too long (max 7)"
  ELSE IF word \notin DICT THEN "not in dictionary"
  ELSE IF ~canConsumeFromBank(word, p.bank) THEN "not enough tiles in bank"
  ELSE "ok"

\* the checks of word:submit in yoink mode, after the rate limiter
SubmitVerdict(r, p, word) ==
  IF word = << >> \/ \E k \in 1 .. Len(word) : word[k] \notin Alphabet THEN "silent"
  ELSE IF Len(word) < r.settings.minLen THEN "too short"
  ELSE IF Len(word) > MaxWordLen THEN "too long (max 7)"
  ELSE IF word \notin DICT THEN "not in dictionary"
  ELSE IF ~canConsumeFromBank(word, p.bank) THEN "not enough tiles in bank"
  ELSE "ok"

\* the player submits when its bank is full
BankIsFull(c) ==
  LET r == rooms[socks[c].roomId]
  IN  c \in DOMAIN r.players /\ Len(r.players[c].bank) = BankCap

\* plan "pair": the player submits a word its bank can build
HoldsWord(c, word) ==
  LET r == rooms[socks[c].roomId]
  IN  c \in DOMAIN r.players /\ canConsumeFromBank(word, r.players[c].bank)

\* socket.on("word:submit")
Submit(c, payload) ==
  /\ CanSend(c, "submit")
  /\ socks[c].roomId # Null
  /\ CASE plan = "pair" -> HoldsWord(c, payload.word)
       [] plan = "five" -> WordDue(c) /\ BankHolds(c, FiveTiles)
       [] plan \in {"flood", "finish"} -> TRUE
       [] OTHER -> BankIsFull(c)
  /\ plan = "match" => idle = 0 \/ JustFilled(c)
  /\ LET code == socks[c].roomId
         r == rooms[code]
         a == allowSubmit(buckets, c, now)
         word == toUpperCase(payload.word)
     IN
     /\ ev' = Event("word:submit", c, code, payload)
     /\ IF ~r.started
        THEN /\ out' = << >>
             /\ UNCHANGED <<rooms, buckets>>
        ELSE
          /\ buckets' = a.buckets
          /\ IF ~a.ok \/ c \notin DOMAIN r.players
             THEN /\ out' = << >>
                  /\ rooms' = rooms
             ELSE
               LET p == r.players[c]
                   verdict == SubmitVerdict(r, p, word)
                   pts == scoreYoinkWord(word, wordMultiplier(r))
                   r1 == [r EXCEPT !.players[c].bank = consumeFromBank(word, @),
                                   !.players[c].words = Append(@, [word |-> word, base |-> pts]),
                                   !.players[c].liveScore = @ + pts]
               IN  IF verdict = "ok"
                   THEN /\ rooms' = [rooms EXCEPT ![code] = r1]
                        /\ out' = << Msg("word:accepted", {c},
                                         [playerId |-> c, name |-> p.name, word |-> word,
                                          letters |-> Len(word), points |-> pts]) >>
                                  \o emitStateToAll(r1, socks, now)
                   ELSE /\ rooms' = rooms
                        /\ out' = IF verdict = "silent" THEN << >>
                                  ELSE << Msg("word:rejected", {c},
                                              [word |-> word, reason |-> verdict]) >>
  /\ Sends("submit")
  /\ UNCHANGED <<now, socks, plan, idle, lateUsed, contest>>

-----------------------------------------------------------------------------
(* Timer callbacks *)

\* the setInterval callback of startNextYoinkRound
TimerTick(code) ==
  /\ code \in DOMAIN rooms
  /\ rooms[code].tick.on
  /\ now >= rooms[code].tick.due
  /\ LET r == rooms[code]
     IN  IF now >= (IF r.endAt = None THEN now ELSE r.endAt)
         THEN LET r1 == [spawnTimerGone(r) EXCEPT !.tick = NoTimer]
              IN  /\ rooms' = [rooms EXCEPT ![code] = endYoinkRoundRoom(r1, now)]
                  /\ out' = endYoinkRoundOut(code, r1, socks, now)
         ELSE /\ rooms' = [rooms EXCEPT ![code].tick = Timer("tick", now + TickMs)]
              /\ out' = emitStateToAll(r, socks, now)
  /\ ev' = Event("timer:tick", Null, code, 0)
  /\ UNCHANGED <<now, socks, plan, idle, lateUsed, contest, sent, buckets>>

RemoveAt(s, k) == SubSeq(s, 1, k - 1) \o SubSeq(s, k + 1, Len(s))

\* the setTimeout callback of endYoinkRound
TimerIntermission(code, k) ==
  /\ code \in DOMAIN rooms
  /\ k \in 1 .. Len(rooms[code].imTimers)
  /\ now >= rooms[code].imTimers[k]
  /\ LET r == [rooms[code] EXCEPT !.imTimers = RemoveAt(@, k)]
     IN  IF r.phase = "intermission"
         THEN LET r1 == startNextYoinkRound(r, now)
              IN  /\ rooms' = [rooms EXCEPT ![code] = r1]
                  /\ contest' = [contest EXCEPT ![code] = NoContest]
                  /\ out' = emitStateToAll(r1, socks, now)
         ELSE /\ rooms' = [rooms EXCEPT ![code] = r]
              /\ contest' = contest
              /\ out' = << >>
  /\ ev' = Event("timer:intermission", Null, code, rooms[code].imTimers[k])
  /\ UNCHANGED <<now, socks, plan, idle, lateUsed, sent, buckets>>

\* setTimeout(scheduleNext, 500): the re-check of a full grid
TimerPoll(code) ==
  /\ code \in DOMAIN rooms
  /\ rooms[code].spawnTimer.on
  /\ rooms[code].spawnTimer.kind = "poll"
  /\ now >= rooms[code].spawnTimer.due
  /\ rooms' = [rooms EXCEPT ![code] = setSpawnTimer(spawnTimerGone(@), now)]
  /\ out' = << >>
  /\ ev' = Event("timer:poll", Null, code, 0)
  /\ UNCHANGED <<now, socks, plan, idle, lateUsed, contest, sent, buckets>>

\* the spawn callback: fills empty slot idx with the letter weightedRandomLetter() draws
\* the spawn that writes the first slot of the grid whatever it holds
spawnTileFirst(r, idx, letter) == [r EXCEPT !.yoinkPool[0] = letter]

\* r.yoinkPool[idx] = weightedRandomLetter()
spawnTile(r, idx, letter) == [r EXCEPT !.yoinkPool[idx] = letter]

TimerSpawn(code, idx, draw) ==
  /\ code \in DOMAIN rooms
  /\ rooms[code].spawnTimer.on
  /\ rooms[code].spawnTimer.kind = "spawn"
  /\ now >= rooms[code].spawnTimer.due
  /\ LET r == rooms[code]
         empties == {i \in Slots : r.yoinkPool[i] = Null}
     IN  IF r.phase # "playing"
         THEN /\ idx = 0 /\ draw = 0
              /\ rooms' = [rooms EXCEPT ![code] = spawnTimerGone(r)]
              /\ out' = << >>
              /\ contest' = contest
         ELSE IF empties = {}
         THEN /\ idx = 0 /\ draw = 0
              /\ rooms' = [rooms EXCEPT ![code] = setSpawnTimer(spawnTimerGone(r), now)]
              /\ out' = << >>
              /\ contest' = contest
         ELSE /\ idx \in empties
              /\ LET r1 == spawnTile(r, idx, weightedRandomLetter(draw))
                 IN  /\ rooms' = [rooms EXCEPT ![code] = setSpawnTimer(spawnTimerGone(r1), now)]
                     /\ out' = emitStateToAll(r1, socks, now)
              /\ contest' = [contest EXCEPT ![code][idx] = [tries |-> << >>, wins |-> 0]]
  /\ ev' = Event("timer:spawn", Null, code, idx)
  /\ UNCHANGED <<now, socks, plan, idle, lateUsed, sent, buckets>>

\* plans "match", "finish" and "five": Math.random() picks the lowest empty slot and the
\* lowest letter
Lot(code, idx, draw) ==
  (plan \in {"match", "finish", "five"} /\ code \in DOMAIN rooms) =>
    LET r == rooms[code]
        empties == {i \in Slots : r.yoinkPool[i] = Null}
    IN  /\ draw = 0
        /\ idx = IF empties = {} \/ r.phase # "playing" THEN 0 ELSE Min(empties)

-----------------------------------------------------------------------------
(* The clock *)

PendingDues ==
  UNION { ( {rooms[code].tick.due : x \in {1} \cap (IF rooms[code].tick.on THEN {1} ELSE {})}
            \cup {rooms[code].spawnTimer.due :
                    x \in {1} \cap (IF rooms[code].spawnTimer.on THEN {1} ELSE {})}
            \cup {rooms[code].imTimers[k] : k \in 1 .. Len(rooms[code].imTimers)} )
          : code \in DOMAIN rooms }

\* the instants at which clients start sending again: a round's or an intermission's
\* deadline, an intermission timeout, a spawn
Stir(t) ==
  \E code \in DOMAIN rooms :
    LET r == rooms[code]
    IN  \/ r.phase \in {"playing", "intermission"} /\ r.endAt # None /\ t >= r.endAt
        \/ \E k \in 1 .. Len(r.imTimers) : t >= r.imTimers[k]
        \/ r.spawnTimer.on /\ r.spawnTimer.kind = "spawn" /\ t >= r.spawnTimer.due

\* time passes until the next timer is due, or one millisecond past that (the
\* timers of plans "match", "finish" and "five" are punctual)
Advance(late) ==
  /\ PendingDues # {}
  /\ ~Eager
  /\ Min(PendingDues) > now
  /\ late \in {0, 1}
  /\ late = 1 => lateUsed < MaxLate /\ Stir(Min(PendingDues)) /\ plan \notin {"match", "finish", "five"}
  /\ LET t == Min(PendingDues) + late
     IN  /\ t <= Boot + Span(plan)
         /\ now' = t
         /\ idle' = IF Stir(t) THEN 0 ELSE MathMin(idle + 1, MaxIdle)
  /\ lateUsed' = lateUsed + late
  /\ ev' = Event("advance", Null, Null, late)
  /\ out' = << >>
  /\ UNCHANGED <<rooms, socks, plan, contest, sent, buckets>>

-----------------------------------------------------------------------------

Init ==
  /\ now = Boot
  /\ rooms = << >>
  /\ socks = [c \in Conns |-> [st |-> "open", roomId |-> Null, joined |-> {}]]
  /\ ev = Event("boot", Null, Null, 0)
  /\ out = << >>
  /\ idle = 0
  /\ lateUsed = 0
  /\ contest = << >>
  /\ sent = [kind \in Kinds |-> 0]
  /\ buckets = << >>
  /\ plan \in Plans

Next ==
  \/ \E c \in Conns, code \in RoomCodes : Join(c, code)
  \/ \E c \in Conns : GameStart(c)
  \/ \E c \in Conns : \E p \in SettingsFor(plan) : SettingsUpdate(c, p)
  \/ \E c \in Conns : Disconnect(c)
  \/ \E c \in Conns : \E x \in YoinkInputs(c) : Keen(c) /\ Yoink(c, x)
  \/ \E c \in Conns : \E w \in SubmitPayloads(plan) : Submit(c, w)
  \/ \E code \in RoomCodes : TimerTick(code)
  \/ \E code \in RoomCodes, k \in 1 .. 3 : TimerIntermission(code, k)
  \/ \E code \in RoomCodes : TimerPoll(code)
  \/ \E code \in RoomCodes, idx \in Slots, draw \in SpawnDraws :
        Lot(code, idx, draw) /\ TimerSpawn(code, idx, draw)
  \/ \E late \in {0, 1} : Advance(late)

Spec == Init /\ [][Next]_vars

-----------------------------------------------------------------------------
(* The functions of yoink-scoring.ts on their own *)

\* the words scored: every word of up to MaxScoreLen letters over a few letters
\* of each point value in both cases, and the beginnings of some longer words
MaxScoreLen == 2
MaxTileCount == 18
ScoreLetters == {"E", "K", "Z", "e", "k", "z"}
ScoreSamples ==
  { <<"J","E","S","T","I","N","G">>, <<"j","e","s","t","i","n","g">>,
    <<"Q","u","I","z","Z","e","D">>, <<"C","A","T">>, <<"c","a","t">> }
ScoreWords ==
  UNION { [1 .. n -> ScoreLetters] : n \in 1 .. MaxScoreLen }
    \cup UNION { { SubSeq(w, 1, n) : n \in 1 .. Len(w) } : w \in ScoreSamples }
\* the multipliers passed: none, or one of ROUND_MULTIPLIERS
ScoreMultipliers == {None} \cup {ROUND_MULTIPLIERS[k] : k \in 1 .. Len(ROUND_MULTIPLIERS)}

Return(v) == << Msg("return", {}, v) >>

\* a call of scoreYoinkWord(word, m)
CallScore(word, m10) ==
  /\ ev' = Event("scoreYoinkWord", Null, Null, [word |-> word, m |-> m10])
  /\ out' = Return(scoreYoinkWord(word, m10))
  /\ UNCHANGED <<now, rooms, socks, plan, idle, lateUsed, contest, sent, buckets>>

\* a call of spawnIntervalMs(n)
CallInterval(n) ==
  /\ ev' = Event("spawnIntervalMs", Null, Null, n)
  /\ out' = Return(spawnIntervalMs(n))
  /\ UNCHANGED <<now, rooms, socks, plan, idle, lateUsed, contest, sent, buckets>>

InitCalls ==
  /\ now = Boot
  /\ rooms = << >>
  /\ socks = [c \in Conns |-> [st |-> "open", roomId |-> Null, joined |-> {}]]
  /\ ev = Event("boot", Null, Null, 0)
  /\ out = << >>
  /\ idle = 0
  /\ lateUsed = 0
  /\ contest = << >>
  /\ sent = [kind \in Kinds |-> 0]
  /\ buckets = << >>
  /\ plan = "calls"

NextCalls ==
  \/ \E word \in ScoreWords, m10 \in ScoreMultipliers : CallScore(word, m10)
  \/ \E n \in 0 .. MaxTileCount : CallInterval(n)

SpecCalls == InitCalls /\ [][NextCalls]_vars

-----------------------------------------------------------------------------
(* Properties *)

CountEv(msgs, e) == Cardinality({k \in 1 .. Len(msgs) : msgs[k].ev = e})
Banks(r) == [id \in DOMAIN r.players |-> r.players[id].bank]
Empties(r) == {i \in Slots : r.yoinkPool[i] = Null}

\* the step handles a tile:yoink of connection c that names slot i of its room,
\* with the room playing and c one of its players
YoinkOnSlot(c, i) ==
  /\ ev'.type = "tile:yoink" /\ ev'.c = c
  /\ IsSlot(ev'.arg) /\ ev'.arg.v10 = 10 * i
  /\ rooms[ev'.room].phase = "playing"
  /\ c \in DOMAIN rooms[ev'.room].players

\* C1 as claimed: when two or more players have yoinked a slot since it was last
\* filled, exactly one yoink succeeded and it was the first one processed.
C1_FirstProcessedWins ==
  \A code \in DOMAIN contest : \A i \in Slots :
    LET t == contest[code][i].tries
    IN  Cardinality({t[k].c : k \in 1 .. Len(t)}) >= 2
          => contest[code][i].wins = 1 /\ t[1].ok

\* C1, amended: of the yoinks on a slot since it was last filled at most one
\* succeeds, namely the first one processed whose sender is off cooldown and has
\* fewer than 7 letters.  That yoink empties the slot, is broadcast in exactly one
\* tile:yoinked and appends the letter to exactly one bank; every other yoink on
\* the slot broadcasts nothing and changes neither the grid nor any bank.
C1_FirstFreeWins ==
  /\ [](\A code \in DOMAIN contest : \A i \in Slots :
          /\ contest[code][i].wins <= 1
          /\ contest[code][i].wins = 1 => rooms[code].yoinkPool[i] = Null)
  /\ [][\A c \in Conns : \A i \in Slots :
          YoinkOnSlot(c, i) =>
            LET r == rooms[ev'.room]
                q == rooms'[ev'.room]
                p == r.players[c]
                won == /\ r.yoinkPool[i] # Null
                       /\ Len(p.bank) < BankCap
                       /\ now - p.lastYoinkTime >= CooldownMs
            IN  IF won
                THEN /\ CountEv(out', "tile:yoinked") = 1
                     /\ q.yoinkPool = [r.yoinkPool EXCEPT ![i] = Null]
                     /\ Banks(q) = [Banks(r) EXCEPT ![c] = Append(@, r.yoinkPool[i])]
                ELSE /\ CountEv(out', "tile:yoinked") = 0
                     /\ q.yoinkPool = r.yoinkPool
                     /\ Banks(q) = Banks(r)]_vars

\* C1 witness: two players have yoinked the same slot and one of them holds its letter
C1_Witness ==
  \E code \in DOMAIN contest : \E i \in Slots :
    LET t == contest[code][i].tries
    IN  /\ Cardinality({t[k].c : k \in 1 .. Len(t)}) >= 2
        /\ contest[code][i].wins = 1
        /\ rooms[code].yoinkPool[i] = Null

\* C2: every player's bank holds at most 7 letters.
C2_BankAtMostSeven ==
  \A code \in DOMAIN rooms : \A id \in DOMAIN rooms[code].players :
    Len(rooms[code].players[id].bank) <= BankCap

\* C2 witness: a player who has played a word and filled its bank again holds 7
\* letters and has just been refused an eighth
C2_Witness ==
  /\ ev.type = "tile:yoink"
  /\ Len(rooms[ev.room].players[ev.c].bank) = BankCap
  /\ rooms[ev.room].players[ev.c].liveScore > 0
  /\ \E k \in 1 .. Len(out) : out[k].ev = "yoink:rejected" /\ out[k].body.reason = "bank full"

\* C3: the grid has the 16 slots 0..15 and each holds null or one letter of A..Z.
C3_GridShape ==
  \A code \in DOMAIN rooms :
    /\ DOMAIN rooms[code].yoinkPool = 0 .. 15
    /\ \A i \in 0 .. 15 : rooms[code].yoinkPool[i] \in Alphabet \cup {Null}

\* C3 witness: a spawn has just filled a slot of a grid that has another slot empty
C3_Witness ==
  /\ ev.type = "timer:spawn"
  /\ rooms[ev.room].phase = "playing"
  /\ rooms[ev.room].yoinkPool[ev.arg] \in Alphabet
  /\ Empties(rooms[ev.room]) # {}

\* C4 as claimed: the phase changes only lobby -> playing, playing -> intermission
\* (currentRound < totalRounds), playing -> finished (currentRound = totalRounds),
\* intermission -> playing (currentRound + 1), finished -> playing (round 1), and
\* outside the lobby 1 <= currentRound <= totalRounds.
C4_PhaseTransitions ==
  [][\A code \in DOMAIN rooms :
       LET r == rooms[code]
           q == rooms'[code]
       IN  /\ q.phase # "lobby" => 1 <= q.currentRound /\ q.currentRound <= q.totalRounds
           /\ r.phase # q.phase =>
                \/ r.phase = "lobby" /\ q.phase = "playing"
                \/ /\ r.phase = "playing" /\ q.phase = "intermission"
                   /\ r.currentRound < r.totalRounds
                \/ /\ r.phase = "playing" /\ q.phase = "finished"
                   /\ r.currentRound = r.totalRounds
                \/ /\ r.phase = "intermission" /\ q.phase = "playing"
                   /\ q.currentRound = r.currentRound + 1
                \/ r.phase = "finished" /\ q.phase = "playing" /\ q.currentRound = 1]_vars

\* what C5 says a game:start must leave alone
GameView(r) ==
  [ phase |-> r.phase, currentRound |-> r.currentRound, grid |-> r.yoinkPool,
    banks |-> Banks(r),
    roundScores |-> [id \in DOMAIN r.players |-> r.players[id].liveScore],
    cumulativeScores |-> r.cumulativeScores ]

\* C5 as claimed: a game:start received while the phase is playing or intermission
\* leaves phase, currentRound, grid, banks, round scores and cumulative scores
\* unchanged.
C5_StartIgnoredMidGame ==
  [][(ev'.type = "game:start" /\ rooms[ev'.room].phase \in {"playing", "intermission"})
       => GameView(rooms'[ev'.room]) = GameView(rooms[ev'.room])]_vars

\* C6 as claimed: a room has at most one pending round-end timer and at most one
\* pending intermission-end timer.
C6_OneTimerOfEachKind ==
  \A code \in DOMAIN rooms : Len(rooms[code].imTimers) <= 1

C8_EmptyRoomDestroyed ==
  \A code \in DOMAIN rooms : DOMAIN rooms[code].players # {}

\* C9 as claimed: the phase is never still playing at a time later than endAt.
C9_PlayingEndsAtEndAt ==
  \A code \in DOMAIN rooms : rooms[code].phase = "playing" => now <= rooms[code].endAt

\* C10 as claimed, for the transitions the intermission timeout makes: it starts
\* the next round no earlier than the end instant of the intermission it ends.
C10_IntermissionEndsOnTime ==
  [][(/\ ev'.type = "timer:intermission"
      /\ rooms[ev'.room].phase = "intermission"
      /\ rooms'[ev'.room].phase = "playing")
       => now >= rooms[ev'.room].endAt]_vars

\* the step starts a round of room code: a game:start, or the intermission
\* timeout finding the room in intermission
RoundStarts(code) ==
  /\ ev'.room = code
  /\ \/ ev'.type = "game:start"
     \/ ev'.type = "timer:intermission" /\ rooms[code].phase = "intermission"

\* C11: right after every round start, from game:start or from an intermission
\* end, every player's bank is empty, every player's round score is 0, all 16
\* slots are filled and the phase is playing.
C11_FreshRound ==
  [][\A code \in DOMAIN rooms :
       RoundStarts(code) =>
         LET q == rooms'[code]
         IN  /\ q.phase = "playing"
             /\ Empties(q) = {}
             /\ \A id \in DOMAIN q.players :
                  q.players[id].bank = << >> /\ q.players[id].liveScore = 0]_vars

\* C11 witness: round 2 has just started for a player who scored in round 1 and
\* so went into the intermission with a round score and letters left
C11_Witness ==
  /\ ev.type = "timer:intermission"
  /\ rooms[ev.room].phase = "playing"
  /\ rooms[ev.room].currentRound = 2
  /\ \E id \in DOMAIN rooms[ev.room].players :
       /\ rooms[ev.room].cumulativeScores[id] > 0
       /\ rooms[ev.room].players[id].bank = << >>

\* the step ends a round of room code
RoundEnds(code) ==
  /\ ev'.type = "timer:tick" /\ ev'.room = code
  /\ rooms[code].phase = "playing"
  /\ rooms'[code].phase \in {"intermission", "finished"}

\* C12: at each round end every present player's cumulative score becomes its
\* previous cumulative score plus its round score; round scores and cumulative
\* scores are never negative; and a cumulative score never decreases except by
\* the game:start that begins a new game.
C12_CumulativeScores ==
  /\ [](\A code \in DOMAIN rooms :
          /\ \A id \in DOMAIN rooms[code].players : rooms[code].players[id].liveScore >= 0
          /\ \A id \in DOMAIN rooms[code].cumulativeScores :
               rooms[code].cumulativeScores[id] >= 0)
  /\ [][\A code \in DOMAIN rooms :
          LET r == rooms[code]
              q == rooms'[code]
          IN  /\ RoundEnds(code) =>
                   \A id \in DOMAIN r.players :
                     q.cumulativeScores[id] =
                       (IF id \in DOMAIN r.cumulativeScores THEN r.cumulativeScores[id] ELSE 0)
                       + r.players[id].liveScore
              /\ ~(ev'.type = "game:start" /\ ev'.room = code) =>
                   \A id \in DOMAIN r.cumulativeScores :
                     /\ id \in DOMAIN q.cumulativeScores
                     /\ q.cumulativeScores[id] >= r.cumulativeScores[id]]_vars

\* C12 witness: the second round has just ended for a player who scored in both
\* rounds
C12_Witness ==
  /\ ev.type = "timer:tick"
  /\ rooms[ev.room].phase \in {"intermission", "finished"}
  /\ rooms[ev.room].currentRound = 2
  /\ \E id \in DOMAIN rooms[ev.room].players :
       /\ rooms[ev.room].players[id].liveScore > 0
       /\ rooms[ev.room].cumulativeScores[id] > rooms[ev.room].players[id].liveScore

\* the player names in use, in ascending string order
NamesAscending == << "Amy", "Player", "Zed" >>
NameRank(n) == CHOOSE k \in 1 .. Len(NamesAscending) : NamesAscending[k] = n

\* C13 as claimed: the leaderboard of every round:ended and game:ended is sorted
\* by cumulative score descending, entries with equal cumulative score by player
\* name ascending.
C13_LeaderboardOrder ==
  \A k \in 1 .. Len(out) :
    out[k].ev \in {"round:ended", "game:ended"} =>
      LET lb == out[k].body.leaderboard
      IN  \A i, j \in 1 .. Len(lb) :
            i < j => \/ lb[i].cumulativeScore > lb[j].cumulativeScore
                     \/ /\ lb[i].cumulativeScore = lb[j].cumulativeScore
                        /\ NameRank(lb[i].name) <= NameRank(lb[j].name)

\* positions in a message sequence
EventsAt(msgs, e) == {k \in 1 .. Len(msgs) : msgs[k].ev = e}
StatesAfterRound(msgs) ==
  {k \in 1 .. Len(msgs) : /\ msgs[k].ev = "lobby:state"
                          /\ msgs[k].body.phase \in {"intermission", "finished"}}

\* C14: at every round end one round:ended is emitted, before every lobby:state
\* that shows phase intermission or finished, and each receiver of such a state
\* has received the round:ended; after the final round game:ended is emitted
\* after round:ended and before the first lobby:state showing finished, and
\* after any other round no game:ended is emitted.
C14_RoundEndedFirst ==
  [][\A code \in DOMAIN rooms :
       RoundEnds(code) =>
         LET re == EventsAt(out', "round:ended")
             ge == EventsAt(out', "game:ended")
             ls == StatesAfterRound(out')
         IN  /\ Cardinality(re) = 1
             /\ \A k \in ls : \E j \in re : j < k /\ out'[k].to \subseteq out'[j].to
             /\ IF rooms'[code].phase = "finished"
                THEN /\ Cardinality(ge) = 1
                     /\ \A g \in ge : (\E j \in re : j < g) /\ (\A k \in ls : g < k)
                ELSE ge = {}]_vars

\* C14 witness: the final round has just ended and its players were sent
\* round:ended, game:ended and the state showing finished
C14_Witness ==
  /\ ev.type = "timer:tick"
  /\ rooms[ev.room].phase = "finished"
  /\ EventsAt(out, "game:ended") # {}
  /\ StatesAfterRound(out) # {}

\* the step handles a tile:yoink of player c of a playing room on a slot of the grid
YoinkInPlay(c) ==
  /\ ev'.type = "tile:yoink" /\ ev'.c = c
  /\ IsSlot(ev'.arg)
  /\ rooms[ev'.room].phase = "playing"
  /\ c \in DOMAIN rooms[ev'.room].players

Rejections(msgs, reason) ==
  {k \in 1 .. Len(msgs) : msgs[k].ev = "yoink:rejected" /\ msgs[k].body.reason = reason}

\* C15 as claimed: during playing a tile:yoink by P is rejected for cooldown
\* exactly when now - P.lastYoinkAt < 500 ms; the rejection is one yoink:rejected
\* with reason "cooldown" sent to P only, and grid, bank and lastYoinkAt of P stay
\* as they were.
C15_CooldownRejection ==
  [][\A c \in Conns :
       YoinkInPlay(c) =>
         LET r == rooms[ev'.room]
             q == rooms'[ev'.room]
         IN  IF now - r.players[c].lastYoinkTime < CooldownMs
             THEN /\ out' = << Msg("yoink:rejected", {c}, [reason |-> "cooldown"]) >>
                  /\ q.yoinkPool = r.yoinkPool
                  /\ q.players[c] = r.players[c]
             ELSE Rejections(out', "cooldown") = {}]_vars

\* the cooldown rejection, under the reason the claim names or the one the
\* handler sends
CooldownReply(c) ==
  { << Msg("yoink:rejected", {c}, [reason |-> "cooldown"]) >>,
    << Msg("yoink:rejected", {c}, [reason |-> "too fast"]) >> }

\* C16 as claimed: the checks come in the order phase, cooldown, bank full, slot
\* content: during playing a yoink by a player on cooldown gets the cooldown
\* rejection even when its bank is full or the slot is empty, and a yoink by a
\* player off cooldown with 7 letters is rejected with reason "bank full"
\* whether or not the slot is filled.
C16_CheckOrder ==
  [][\A c \in Conns :
       YoinkInPlay(c) =>
         LET p == rooms[ev'.room].players[c]
         IN  IF now - p.lastYoinkTime < CooldownMs
             THEN out' \in CooldownReply(c)
             ELSE Len(p.bank) >= BankCap
                    => out' = << Msg("yoink:rejected", {c}, [reason |-> "bank full"]) >>]_vars

\* C17: a tile:yoink on an empty slot by a player who is off cooldown and has
\* room in its bank changes no room and no player and sends no message.
C17_LostRaceSilent ==
  [][\A c \in Conns :
       (/\ YoinkInPlay(c)
        /\ rooms[ev'.room].yoinkPool[ev'.arg.v10 \div 10] = Null
        /\ Len(rooms[ev'.room].players[c].bank) < BankCap
        /\ now - rooms[ev'.room].players[c].lastYoinkTime >= CooldownMs)
         => rooms' = rooms /\ out' = << >>]_vars

\* C17 witness: a player off cooldown with room in its bank has just yoinked a
\* slot that another player had emptied
C17_Witness ==
  /\ ev.type = "tile:yoink"
  /\ IsSlot(ev.arg)
  /\ rooms[ev.room].phase = "playing"
  /\ ev.c \in DOMAIN rooms[ev.room].players
  /\ rooms[ev.room].yoinkPool[ev.arg.v10 \div 10] = Null
  /\ Len(rooms[ev.room].players[ev.c].bank) < BankCap
  /\ now - rooms[ev.room].players[ev.c].lastYoinkTime >= CooldownMs
  /\ contest[ev.room][ev.arg.v10 \div 10].wins = 1

\* C18: a tile:yoink received while the phase is lobby, intermission or finished
\* changes nothing in any room (grid, banks, lastYoinkTime, timers) and sends no
\* message.
C18_YoinkOutsideRound ==
  [][(ev'.type = "tile:yoink" /\ rooms[ev'.room].phase \in {"lobby", "intermission", "finished"})
       => rooms' = rooms /\ out' = << >>]_vars

\* C18 witness: a player has just yoinked a filled slot of a room that is in
\* intermission or finished
C18_Witness ==
  /\ ev.type = "tile:yoink"
  /\ IsSlot(ev.arg)
  /\ rooms[ev.room].phase \in {"intermission", "finished"}
  /\ rooms[ev.room].yoinkPool[ev.arg.v10 \div 10] # Null

\* C19: a word:submit received while the phase is lobby, intermission or
\* finished changes no bank and no score and produces no word:accepted.
LiveScores(r) == [id \in DOMAIN r.players |-> r.players[id].liveScore]
C19_SubmitOnlyPlaying ==
  [][(ev'.type = "word:submit" /\ rooms[ev'.room].phase \in {"lobby", "intermission", "finished"})
       => /\ Banks(rooms'[ev'.room]) = Banks(rooms[ev'.room])
          /\ LiveScores(rooms'[ev'.room]) = LiveScores(rooms[ev'.room])
          /\ rooms'[ev'.room].cumulativeScores = rooms[ev'.room].cumulativeScores
          /\ CountEv(out', "word:accepted") = 0]_vars

\* C20: a submitted word shorter than settings.minLen is rejected with reason
\* "too short", a word longer than 7 letters is rejected with reason
\* "too long (max 7)", and a dictionary word of exactly 7 letters that the bank
\* can build is accepted. The submits are those of a player of a started room
\* that pass the rate limiter, with a word of letters only.
SubmitHeard(c) ==
  /\ ev'.type = "word:submit" /\ ev'.c = c
  /\ rooms[ev'.room].started
  /\ allowSubmit(buckets, c, now).ok
  /\ c \in DOMAIN rooms[ev'.room].players
  /\ ev'.arg.word # << >>
  /\ \A k \in 1 .. Len(ev'.arg.word) : ev'.arg.word[k] \in Alphabet
C20_WordLengthBounds ==
  [][\A c \in Conns :
       SubmitHeard(c) =>
         LET r == rooms[ev'.room]
             word == ev'.arg.word
         IN  /\ Len(word) < r.settings.minLen
                  => /\ out' = << Msg("word:rejected", {c}, [word |-> word, reason |-> "too short"]) >>
                     /\ rooms' = rooms
             /\ Len(word) > 7
                  => /\ out' = << Msg("word:rejected", {c},
                                     [word |-> word, reason |-> "too long (max 7)"]) >>
                     /\ rooms' = rooms
             /\ (/\ Len(word) = 7 /\ Len(word) >= r.settings.minLen
                 /\ word \in DICT
                 /\ canConsumeFromBank(word, r.players[c].bank))
                  => /\ Len(out') >= 1
                     /\ out'[1].ev = "word:accepted" /\ out'[1].to = {c}
                     /\ out'[1].body.word = word
                     /\ CountEv(out', "word:rejected") = 0
                     /\ rooms'[ev'.room].players[c].bank = << >>]_vars

\* C20 witness: a word of exactly 7 letters has just been accepted
C20_Witness ==
  /\ ev.type = "word:submit"
  /\ Len(ev.arg.word) = 7
  /\ CountEv(out, "word:accepted") = 1

\* a word of 8 letters has just been rejected as too long
C20_TooLongSeen ==
  /\ ev.type = "word:submit"
  /\ Len(ev.arg.word) = 8
  /\ \E k \in 1 .. Len(out) : out[k].ev = "word:rejected" /\ out[k].body.reason = "too long (max 7)"

\* a word below minLen has just been rejected as too short
C20_TooShortSeen ==
  /\ ev.type = "word:submit"
  /\ Len(ev.arg.word) = 2
  /\ \E k \in 1 .. Len(out) : out[k].ev = "word:rejected" /\ out[k].body.reason = "too short"

\* C21: every rejected word:submit leaves every room unchanged (the submitter's
\* bank, all scores, the grid, every other player), sends word:rejected to the
\* submitter only, and carries one of the reasons "too short",
\* "too long (max 7)", "not a word", "not in bank".
SubmitRejected(c) ==
  /\ ev'.type = "word:submit" /\ ev'.c = c
  /\ CountEv(out', "word:rejected") > 0
C21_RejectedSubmit ==
  [][\A c \in Conns :
       SubmitRejected(c) =>
         /\ rooms' = rooms
         /\ Len(out') = 1 /\ out'[1].to = {c}
         /\ out'[1].body.reason \in {"too short", "too long (max 7)", "not a word", "not in bank"}]_vars

\* the frame of a rejected word:submit, with the reasons left open
C21_RejectedFrame ==
  [][\A c \in Conns :
       SubmitRejected(c) => rooms' = rooms /\ Len(out') = 1 /\ out'[1].to = {c}]_vars

\* C22: a word:submit is accepted only if the selected bank indices are
\* distinct, in range, and the bank letters at those indices, read in selection
\* order, spell the submitted word exactly.
Spells(sel, bank, word) ==
  /\ sel.given
  /\ Len(sel.at) = Len(word)
  /\ \A k \in 1 .. Len(sel.at) : sel.at[k] \in 1 .. Len(bank)
  /\ \A k, l \in 1 .. Len(sel.at) : k # l => sel.at[k] # sel.at[l]
  /\ \A k \in 1 .. Len(sel.at) : bank[sel.at[k]] = word[k]
C22_IndicesSpellWord ==
  [][\A c \in Conns :
       (/\ ev'.type = "word:submit" /\ ev'.c = c
        /\ CountEv(out', "word:accepted") > 0)
         => Spells(ev'.arg.indices, rooms[ev'.room].players[c].bank, ev'.arg.word)]_vars

\* a submit whose indices do not spell its word has just been accepted
C22_WrongIndicesAccepted ==
  /\ ev.type = "word:submit"
  /\ ev.arg.indices.given
  /\ CountEv(out, "word:accepted") > 0

\* C23: duplicates are allowed. A valid word that the bank can build is accepted
\* during a round whether or not the submitter or another player has already
\* played it in that round, and it awards the same points as each earlier play
\* of the word in the round.
Plays(p, word) == {k \in 1 .. Len(p.words) : p.words[k].word = word}
C23_DuplicatesAllowed ==
  [][\A c \in Conns :
       (/\ SubmitHeard(c)
        /\ rooms[ev'.room].phase = "playing"
        /\ Len(ev'.arg.word) >= rooms[ev'.room].settings.minLen
        /\ Len(ev'.arg.word) <= 7
        /\ ev'.arg.word \in DICT
        /\ canConsumeFromBank(ev'.arg.word, rooms[ev'.room].players[c].bank))
         => LET r == rooms[ev'.room]
                word == ev'.arg.word
            IN  /\ Len(out') >= 1
                /\ out'[1].ev = "word:accepted" /\ out'[1].body.word = word
                /\ CountEv(out', "word:rejected") = 0
                /\ \A d \in DOMAIN r.players : \A k \in Plays(r.players[d], word) :
                     out'[1].body.points = r.players[d].words[k].base
                /\ rooms'[ev'.room].players[c].liveScore =
                     r.players[c].liveScore + out'[1].body.points]_vars

\* C23 witness: a word has just been accepted that another player of the room has
\* played twice in the round
C23_Witness ==
  /\ ev.type = "word:submit"
  /\ CountEv(out, "word:accepted") = 1
  /\ rooms[ev.room].phase = "playing"
  /\ \E d \in DOMAIN rooms[ev.room].players :
       /\ d # ev.c
       /\ Cardinality(Plays(rooms[ev.room].players[d], ev.arg.word)) = 2

\* C24: for every word of 1..7 letters over A..Z and every multiplier in
\* {1.0, 1.2, 1.5}, scoreYoinkWord(word, m) is the sum of the letter points
\* (10 for ADEGILNORSTU, 20 for BCFHKMPVWY, 30 for JQXZ) times
\* (1 + 0.20 * length) times m, rounded to the nearest whole number; the result
\* does not depend on letter case and the multiplier defaults to 1.0
\* (CAT = 64 at 1.0, 77 at 1.2, 96 at 1.5; JESTING = 216 at 1.0, 324 at 1.5).
toLowerCase(word) ==
  [k \in 1 .. Len(word) |->
     IF \E j \in 1 .. Len(UpperCase) : UpperCase[j] = word[k]
     THEN LowerCase[CHOOSE j \in 1 .. Len(UpperCase) : UpperCase[j] = word[k]]
     ELSE word[k]]
LetterPoints(ch) ==
  IF ch \in {"A","D","E","G","I","L","N","O","R","S","T","U"} THEN 10
  ELSE IF ch \in {"B","C","F","H","K","M","P","V","W","Y"} THEN 20
  ELSE IF ch \in {"J","Q","X","Z"} THEN 30
  ELSE 0
RECURSIVE PointSum(_)
PointSum(word) == IF word = << >> THEN 0 ELSE LetterPoints(Head(word)) + PointSum(Tail(word))
ScoreCalled == ev.type = "scoreYoinkWord"
C24_ScoreFormula ==
  ScoreCalled =>
    LET word == ev.arg.word
        upper == [k \in 1 .. Len(word) |->
                    IF word[k] \in Alphabet THEN word[k]
                    ELSE CHOOSE ch \in Alphabet : toLowerCase(<<ch>>) = <<word[k]>>]
        m10 == IF ev.arg.m = None THEN 10 ELSE ev.arg.m
        score == out[1].body
        \* 100 times the product before rounding
        product100 == 2 * PointSum(upper) * (5 + Len(word)) * m10
    IN  /\ 100 * score - 50 <= product100
        /\ product100 < 100 * score + 50
        /\ score = scoreYoinkWord(upper, ev.arg.m)
        /\ score = scoreYoinkWord(toLowerCase(word), ev.arg.m)
        /\ ev.arg.m = None => score = scoreYoinkWord(word, 10)
        /\ upper = <<"C","A","T">> =>
             score = (CASE m10 = 10 -> 64 [] m10 = 12 -> 77 [] m10 = 15 -> 96)
        /\ (upper = <<"J","E","S","T","I","N","G">> /\ m10 = 10) => score = 216
        /\ (upper = <<"J","E","S","T","I","N","G">> /\ m10 = 15) => score = 324

\* C24 witness: scoreYoinkWord("jesting", 1.5) has just returned 324
C24_Witness ==
  /\ ScoreCalled
  /\ ev.arg.word = <<"j","e","s","t","i","n","g">>
  /\ ev.arg.m = 15
  /\ out[1].body = 324

\* C25: spawnIntervalMs(n) is 500 ms at n = 0, 10000 ms at n = 15, no spawn
\* (Infinity) at n >= 16, and for n in 0..15 equals 500 + 9500 * n / 15, so it
\* is strictly increasing in n and strictly between 500 and 10000 for n in
\* 1..14. The intervals are in thirds of a millisecond.
IntervalCalled == ev.type = "spawnIntervalMs"
C25_SpawnInterval ==
  IntervalCalled =>
    LET n == ev.arg
        ms3 == out[1].body
    IN  /\ n = 0 => ms3 = 3 * 500
        /\ n = 15 => ms3 = 3 * 10000
        /\ n >= 16 => ms3 = Infinity
        /\ n \in 0 .. 15 => 15 * ms3 = 3 * (15 * 500 + 9500 * n)
        /\ n \in 1 .. 14 => 3 * 500 < ms3 /\ ms3 < 3 * 10000
        /\ n \in 0 .. 14 => ms3 < spawnIntervalMs(n + 1)

\* C25 witness: spawnIntervalMs(15) has just returned 10000 ms
C25_Witness ==
  /\ IntervalCalled
  /\ ev.arg = 15
  /\ out[1].body = 3 * MaxSpawnMs

\* C26: the word:submit rate limiter is a token bucket per connection that
\* starts with 10 tokens, never holds more than 10 or fewer than 0, and refills 5
\* tokens per second of elapsed time; from a fresh connection exactly the first
\* 10 submits at one instant pass; a submit that finds less than 1 token is
\* dropped with no reply and no change to bank, score or grid; tile:yoink events
\* neither consume tokens nor are blocked by an empty bucket. Tokens are counted
\* in 200ths, so that one millisecond refills one 200th.
TokensFound(c) ==
  IF c \in DOMAIN buckets
  THEN MathMin(200 * 10, buckets[c].tokens + ((now - buckets[c].last) * 5 * 200) \div 1000)
  ELSE 200 * 10
SubmitMetered(c) ==
  /\ ev'.type = "word:submit" /\ ev'.c = c
  /\ rooms[ev'.room].started
C26_RateLimiter ==
  [][/\ \A c \in DOMAIN buckets' : buckets'[c].tokens >= 0 /\ buckets'[c].tokens <= 200 * 10
     /\ \A c \in Conns :
          SubmitMetered(c) =>
            /\ TokensFound(c) >= 200 =>
                 /\ buckets'[c].tokens = TokensFound(c) - 200
                 /\ SubmitHeard(c) => out' # << >>
            /\ TokensFound(c) < 200 =>
                 /\ buckets'[c].tokens = TokensFound(c)
                 /\ out' = << >> /\ rooms' = rooms
            /\ (plan = "flood" /\ now = Boot) => (out' # << >> <=> sent["submit"] < 10)
     /\ ev'.type = "tile:yoink" => buckets' = buckets
     /\ \A c \in Conns :
          (/\ YoinkInPlay(c)
           /\ rooms[ev'.room].yoinkPool[ev'.arg.v10 \div 10] # Null
           /\ Len(rooms[ev'.room].players[c].bank) < BankCap
           /\ now - rooms[ev'.room].players[c].lastYoinkTime >= CooldownMs)
            => CountEv(out', "tile:yoinked") > 0]_vars

\* C26 witness: the eleventh submit of a fresh connection at one instant has just
\* been dropped
C26_Witness ==
  /\ ev.type = "word:submit"
  /\ now = Boot
  /\ sent["submit"] = 11
  /\ out = << >>
  /\ buckets[ev.c].tokens = 0

\* a tile:yoink has just succeeded while the sender's bucket held less than a token
C26_YoinkOnEmptyBucket ==
  /\ ev.type = "tile:yoink"
  /\ CountEv(out, "tile:yoinked") > 0
  /\ ev.c \in DOMAIN buckets
  /\ buckets[ev.c].tokens + (now - buckets[ev.c].last) < 200

\* a refill has just been cut at the capacity
C26_RefillCapped ==
  /\ ev.type = "word:submit"
  /\ buckets[ev.c].tokens = 200 * 10 - 200
  /\ sent["submit"] > 1

\* C27: the lobby:state projection sent to viewer V contains V's own bank and
\* V's own round score and no other player's bank or round score, and
\* scoresHidden is true exactly when the phase is playing: two room states that
\* differ only in other players' banks and round scores yield the same
\* projection for V.
OtherBanks == { << >>, <<"Q">>, <<"J","E","S","T","I","N","G">> }
OtherScores == {0, 7, 216}
\* the room with the bank and round score of every player but V replaced
Elsewhere(r, V) ==
  { [r EXCEPT !.players = [id \in DOMAIN r.players |->
                             IF id = V THEN r.players[id]
                             ELSE [r.players[id] EXCEPT !.bank = bk, !.liveScore = sc]]] :
      bk \in OtherBanks, sc \in OtherScores }
StatesSent == {k \in 1 .. Len(out) : out[k].ev = "lobby:state"}
C27_PrivateProjection ==
  \A k \in StatesSent :
    /\ ev.room \in DOMAIN rooms
    /\ \E V \in DOMAIN rooms[ev.room].players :
         LET r == rooms[ev.room]
             view == out[k].body
         IN  /\ out[k].to = {V}
             /\ view.bank = r.players[V].bank
             /\ view.myScore = r.players[V].liveScore
             /\ view.scoresHidden <=> r.phase = "playing"
             /\ view.phase = r.phase
             /\ \A i \in 1 .. Len(view.players) : DOMAIN view.players[i] = {"id", "name"}
             /\ \A r2 \in Elsewhere(r, V) : publicState(r2, V, now) = view

\* C27 witness: during a round a projection has just been sent to a viewer while
\* another player of the room holds letters and a round score
C27_Witness ==
  /\ ev.room \in DOMAIN rooms
  /\ rooms[ev.room].phase = "playing"
  /\ \E k \in StatesSent : \E d \in DOMAIN rooms[ev.room].players :
       /\ d \notin out[k].to
       /\ rooms[ev.room].players[d].bank # << >>
       /\ rooms[ev.room].players[d].liveScore > 0
       /\ out[k].body.bank # rooms[ev.room].players[d].bank

\* C28: every accepted word produces one word:accepted event that is delivered
\* to every player in the submitter's room, carrying the submitter's id, the
\* word, its length and the points awarded.
C28_AcceptedRoomWide ==
  \A k \in 1 .. Len(out) :
    out[k].ev = "word:accepted" =>
      /\ CountEv(out, "word:accepted") = 1
      /\ out[k].to = DOMAIN rooms[ev.room].players \cap OpenSet(socks)
      /\ out[k].body.playerId = ev.c
      /\ out[k].body.word = toUpperCase(ev.arg.word)
      /\ out[k].body.letters = Len(ev.arg.word)
      /\ out[k].body.points = scoreYoinkWord(ev.arg.word, roundMultiplier(rooms[ev.room]))

\* what holds of word:accepted: one event, to the submitter, with these fields
C28_AcceptedToSubmitter ==
  \A k \in 1 .. Len(out) :
    out[k].ev = "word:accepted" =>
      /\ CountEv(out, "word:accepted") = 1
      /\ out[k].to = {ev.c}
      /\ out[k].body.playerId = ev.c
      /\ out[k].body.word = toUpperCase(ev.arg.word)
      /\ out[k].body.letters = Len(ev.arg.word)
      /\ out[k].body.points = scoreYoinkWord(ev.arg.word, roundMultiplier(rooms[ev.room]))

\* C29: after any sequence of settings:update events with numeric fields, rounds
\* is in 1..5, roundDurationSec in 15..300, intermissionSec in 3..30 and minLen
\* in 2..6; a field that is absent from an update keeps its value, and an update
\* never changes phase, currentRound, the running round's end instant, grid,
\* banks or scores.
SettingsInRange(s) ==
  /\ s.rounds \in 1 .. 5
  /\ s.roundDurationSec \in 15 .. 300
  /\ s.intermissionSec \in 3 .. 30
  /\ s.minLen \in 2 .. 6
\* v is the number x10 (in tenths) brought to the nearest integer of lo..hi
Clamped(lo, hi, x10, v) ==
  /\ v \in lo .. hi
  /\ x10 < 10 * lo => v = lo
  /\ x10 > 10 * hi => v = hi
  /\ (10 * lo <= x10 /\ x10 <= 10 * hi) => (10 * v - x10 <= 5 /\ x10 - 10 * v <= 5)
C29_SettingsClamped ==
  [][/\ \A code \in DOMAIN rooms' : SettingsInRange(rooms'[code].settings)
     /\ ev'.type = "settings:update" =>
          LET r == rooms[ev'.room]
              s == r.settings
              s1 == rooms'[ev'.room].settings
              p == ev'.arg
          IN  /\ IF p.rounds = None THEN s1.rounds = s.rounds
                 ELSE Clamped(1, 5, p.rounds, s1.rounds)
              /\ IF p.roundDurationSec = None THEN s1.roundDurationSec = s.roundDurationSec
                 ELSE Clamped(15, 300, p.roundDurationSec, s1.roundDurationSec)
              /\ IF p.intermissionSec = None THEN s1.intermissionSec = s.intermissionSec
                 ELSE Clamped(3, 30, p.intermissionSec, s1.intermissionSec)
              /\ IF p.minLen = None THEN s1.minLen = s.minLen
                 ELSE Clamped(2, 6, p.minLen, s1.minLen)
              /\ rooms' = [rooms EXCEPT ![ev'.room].settings = s1]]_vars

\* C29 witness: during a round, a second update without minLen and with values
\* above the ranges has just been applied
C29_Witness ==
  /\ ev.type = "settings:update"
  /\ sent["settings"] = 2
  /\ rooms[ev.room].phase = "playing"
  /\ ev.arg.minLen = None /\ ev.arg.rounds = 54
  /\ rooms[ev.room].settings.rounds = 5
  /\ rooms[ev.room].settings.roundDurationSec = 300
  /\ rooms[ev.room].settings.minLen = 6

\* C30: a successful tile:yoink of slot i by player P empties slot i, appends
\* the letter that was in slot i at the tail of P's bank, sets P.lastYoinkAt to
\* now and broadcasts tile:yoinked with P's id, i and that letter; every other
\* slot, every other player's bank, all scores and the phase are unchanged, so
\* the count of filled slots drops by exactly 1 and P's bank grows by exactly 1.
Yoinked(msgs) == {k \in 1 .. Len(msgs) : msgs[k].ev = "tile:yoinked"}
C30_YoinkEffect ==
  [][\A c \in Conns :
       (YoinkInPlay(c) /\ Yoinked(out') # {}) =>
         LET r == rooms[ev'.room]
             r1 == rooms'[ev'.room]
             i == ev'.arg.v10 \div 10
             letter == r.yoinkPool[i]
         IN  /\ letter \in Alphabet
             /\ r1.yoinkPool = [r.yoinkPool EXCEPT ![i] = Null]
             /\ r1.players[c].bank = r.players[c].bank \o <<letter>>
             /\ r1.players[c].lastYoinkTime = now
             /\ Cardinality(Yoinked(out')) = 1
             /\ \A k \in Yoinked(out') :
                  /\ out'[k].body.playerId = c
                  /\ out'[k].body.index = IntIndex(i)
                  /\ out'[k].body.letter = letter
                  /\ (DOMAIN r.players \cap OpenSet(socks)) \subseteq out'[k].to
             /\ \A d \in DOMAIN r.players \ {c} : r1.players[d] = r.players[d]
             /\ DOMAIN r1.players = DOMAIN r.players
             /\ LiveScores(r1) = LiveScores(r)
             /\ r1.cumulativeScores = r.cumulativeScores
             /\ r1.phase = r.phase
             /\ r1.currentRound = r.currentRound /\ r1.endAt = r.endAt
             /\ countPoolTiles(r1.yoinkPool) = countPoolTiles(r.yoinkPool) - 1
             /\ Len(r1.players[c].bank) = Len(r.players[c].bank) + 1
             /\ \A code \in DOMAIN rooms \ {ev'.room} : rooms'[code] = rooms[code]]_vars

\* C30 witness: a player holding letters has just yoinked a different letter while
\* another player of the room holds letters too
C30_Witness ==
  /\ ev.type = "tile:yoink"
  /\ IsSlot(ev.arg)
  /\ Yoinked(out) # {}
  /\ Len(rooms[ev.room].players[ev.c].bank) >= 2
  /\ rooms[ev.room].players[ev.c].bank[1] # out[Len(out)].body.letter
  /\ \E d \in DOMAIN rooms[ev.room].players \ {ev.c} : rooms[ev.room].players[d].bank # << >>

\* C31: a successful yoink cancels the pending spawn and schedules the next
\* spawn intervalMs(n) after the yoink, n being the filled-slot count after the
\* yoink (the delay is a whole number of milliseconds); from a full grid a single
\* yoink leads to one spawn 10000 ms later, after which the grid is full again
\* and no further spawn is scheduled.
SpawnFires(code) == ev'.type = "timer:spawn" /\ ev'.room = code
C31_YoinkReschedules ==
  [][/\ \A c \in Conns :
          (YoinkInPlay(c) /\ Yoinked(out') # {}) =>
            LET r1 == rooms'[ev'.room]
                n == countPoolTiles(r1.yoinkPool)
                delay == r1.spawnTimer.due - now
            IN  /\ r1.spawnTimer.on /\ r1.spawnTimer.kind = "spawn"
                /\ 15 * delay <= 15 * 500 + 9500 * n
                /\ 15 * 500 + 9500 * n < 15 * (delay + 1)
                /\ countPoolTiles(rooms[ev'.room].yoinkPool) = 16 => delay = 10000
     /\ \A code \in DOMAIN rooms :
          (/\ SpawnFires(code)
           /\ rooms[code].phase = "playing"
           /\ countPoolTiles(rooms[code].yoinkPool) = 15)
            => /\ now >= rooms[code].spawnTimer.due
               /\ countPoolTiles(rooms'[code].yoinkPool) = 16
               /\ rooms'[code].spawnTimer.kind # "spawn"]_vars

\* C31 witness: 10000 ms after the single yoink from a full grid the spawn has
\* just fired and the grid is full again
C31_Witness ==
  /\ ev.type = "timer:spawn"
  /\ sent["yoink"] = 1
  /\ now = Boot + MaxSpawnMs
  /\ rooms[ev.room].phase = "playing"
  /\ countPoolTiles(rooms[ev.room].yoinkPool) = GridSize
  /\ rooms[ev.room].spawnTimer.kind = "poll"

\* C32: spawning happens only while the phase is playing: in a step that leaves
\* the phase lobby, intermission or finished no grid slot goes from empty to
\* filled, and a spawn timer that fires outside the playing phase fills no slot.
C32_SpawnOnlyWhilePlaying ==
  [][\A code \in DOMAIN rooms' :
       /\ (code \in DOMAIN rooms /\ rooms'[code].phase # "playing")
            => \A i \in Slots : rooms[code].yoinkPool[i] = Null
                                  => rooms'[code].yoinkPool[i] = Null
       /\ (code \notin DOMAIN rooms /\ rooms'[code].phase # "playing")
            => \A i \in Slots : rooms'[code].yoinkPool[i] = Null
       /\ (code \in DOMAIN rooms /\ SpawnFires(code) /\ rooms[code].phase # "playing")
            => rooms'[code].yoinkPool = rooms[code].yoinkPool]_vars

\* C32 witness: an intermission has run to its end instant with empty slots on
\* the grid
C32_Witness ==
  \E code \in DOMAIN rooms :
    /\ rooms[code].phase = "intermission"
    /\ now >= rooms[code].endAt
    /\ Empties(rooms[code]) # {}
    /\ ~rooms[code].spawnTimer.on

\* C33: each spawn that fires with at least one empty slot fills exactly one
\* slot that was empty and changes no filled slot, no bank and no score; a spawn
\* never overwrites a letter that is on the grid.
C33_SpawnFillsOneEmpty ==
  [][\A code \in DOMAIN rooms :
       SpawnFires(code) =>
         LET r == rooms[code]
             r1 == rooms'[code]
         IN  /\ \A i \in Slots : r.yoinkPool[i] # Null => r1.yoinkPool[i] = r.yoinkPool[i]
             /\ r1.players = r.players
             /\ r1.cumulativeScores = r.cumulativeScores
             /\ (r.phase = "playing" /\ Empties(r) # {}) =>
                  /\ Cardinality(Empties(r) \ Empties(r1)) = 1
                  /\ \A i \in Empties(r) \ Empties(r1) : r1.yoinkPool[i] \in Alphabet
                  /\ countPoolTiles(r1.yoinkPool) = countPoolTiles(r.yoinkPool) + 1
             /\ \A other \in DOMAIN rooms \ {code} : rooms'[other] = rooms[other]]_vars

\* C33 witness: a spawn has just filled a slot of a grid that holds other letters
\* and still has an empty slot, while a player holds letters
C33_Witness ==
  /\ ev.type = "timer:spawn"
  /\ rooms[ev.room].phase = "playing"
  /\ rooms[ev.room].yoinkPool[ev.arg] \in Alphabet
  /\ Empties(rooms[ev.room]) # {}
  /\ \E c \in DOMAIN rooms[ev.room].players : rooms[ev.room].players[c].bank # << >>

\* C34: after an accepted word:submit the submitter's bank is the prior bank
\* with exactly the word's letters removed (one bank letter per word letter, as
\* a multiset), the remaining letters keep their relative order, the bank is
\* shorter by exactly the word's length, and the submitter's round score has
\* grown by exactly scoreYoinkWord(word, multiplier of the current round).
Occurrences(seq, ch) == Cardinality({k \in 1 .. Len(seq) : seq[k] = ch})
\* a is b with some elements left out
RECURSIVE KeepsOrder(_, _)
KeepsOrder(a, b) ==
  IF a = << >> THEN TRUE
  ELSE IF b = << >> THEN FALSE
  ELSE IF Head(a) = Head(b) THEN KeepsOrder(Tail(a), Tail(b)) \/ KeepsOrder(a, Tail(b))
  ELSE KeepsOrder(a, Tail(b))
MultiplierOfRound(n) == CASE n = 2 -> 12 [] n = 3 -> 15 [] OTHER -> 10
SubmitAccepted(c) ==
  /\ ev'.type = "word:submit" /\ ev'.c = c
  /\ CountEv(out', "word:accepted") > 0
C34_BankConsumed ==
  [][\A c \in Conns :
       SubmitAccepted(c) =>
         LET r == rooms[ev'.room]
             bank == r.players[c].bank
             bank1 == rooms'[ev'.room].players[c].bank
             word == ev'.arg.word
         IN  /\ \A ch \in Alphabet :
                  Occurrences(bank1, ch) + Occurrences(word, ch) = Occurrences(bank, ch)
             /\ KeepsOrder(bank1, bank)
             /\ Len(bank1) = Len(bank) - Len(word)
             /\ rooms'[ev'.room].players[c].liveScore =
                  r.players[c].liveScore
                    + scoreYoinkWord(word, MultiplierOfRound(r.currentRound))]_vars

\* C34 witness: TIN has just been accepted from the bank J,E,S,T,I,N,G
C34_Witness ==
  /\ ev.type = "word:submit"
  /\ ev.arg.word = <<"T","I","N">>
  /\ CountEv(out, "word:accepted") > 0
  /\ rooms[ev.room].players[ev.c].bank = <<"J","E","S","G">>

\* C35: in every reachable state every element of every bank is a letter of
\* A..Z that was taken from the grid: a tile:yoink whose index is missing, not
\* a number, not an integer or outside 0..15 changes no state.
C35_BanksHoldGridLetters ==
  /\ [](\A code \in DOMAIN rooms : \A c \in DOMAIN rooms[code].players :
          \A k \in 1 .. Len(rooms[code].players[c].bank) :
            rooms[code].players[c].bank[k] \in Alphabet)
  /\ [][(ev'.type = "tile:yoink" /\ ~IsSlot(ev'.arg))
          => (rooms' = rooms /\ out' = << >>)]_vars

\* C36: at any time each connection id appears in the player table of at most
\* one room: after lobby:join for room A and then lobby:join for a different
\* room B it is a player of B only, and after it disconnects it is a player of
\* no room.
PlayerOf(c) == {code \in DOMAIN rooms : c \in DOMAIN rooms[code].players}
C36_PlayerOfOneRoom ==
  \A c \in Conns :
    /\ Cardinality(PlayerOf(c)) <= 1
    /\ socks[c].roomId # Null => PlayerOf(c) \subseteq {socks[c].roomId}
    /\ socks[c].st = "closed" => PlayerOf(c) = {}

(* The fair specification: one game of plan "finish", and timers that fire *)

InitFair ==
  /\ now = Boot
  /\ rooms = << >>
  /\ socks = [c \in Conns |-> [st |-> "open", roomId |-> Null, joined |-> {}]]
  /\ ev = Event("boot", Null, Null, 0)
  /\ out = << >>
  /\ idle = 0
  /\ lateUsed = 0
  /\ contest = << >>
  /\ sent = [kind \in Kinds |-> 0]
  /\ buckets = << >>
  /\ plan = "finish"

\* Node's event loop: while a timer is pending the clock moves on to its due time,
\* and a callback that is due is run
TimerStep ==
  \/ \E code \in RoomCodes : TimerTick(code)
  \/ \E code \in RoomCodes, k \in 1 .. 3 : TimerIntermission(code, k)
  \/ \E code \in RoomCodes : TimerPoll(code)
  \/ \E code \in RoomCodes, idx \in Slots, draw \in SpawnDraws :
        Lot(code, idx, draw) /\ TimerSpawn(code, idx, draw)
  \/ \E late \in {0, 1} : Advance(late)
TimersFire == WF_vars(TimerStep)

SpecFair == InitFair /\ [][Next]_vars /\ TimersFire

\* C37: under fair firing of timers and with no further game:start, every game
\* that has started eventually reaches phase finished, whatever yoinks, submits,
\* joins, settings updates and disconnects happen on the way.
C37_StartedGameFinishes ==
  \A code \in RoomCodes :
    (code \in DOMAIN rooms /\ rooms[code].started)
      ~> (code \in DOMAIN rooms /\ rooms[code].phase = "finished")

\* C37 witness: a game has finished after a yoink, a submit, a settings update
\* and a disconnect on the way
C37_Witness ==
  /\ plan = "finish"
  /\ \E code \in DOMAIN rooms :
       /\ rooms[code].phase = "finished"
       /\ ~rooms[code].started
       /\ rooms[code].currentRound >= 2
  /\ sent["start"] = 1
  /\ sent["yoink"] > 0 /\ sent["submit"] > 0
  /\ sent["settings"] = FinishSettings /\ sent["disconnect"] > 0

\* C38: in every reachable state a room has at most one pending spawn timer,
\* for any sequence of yoinks, spawn fires, round starts, round ends and
\* game:start events; outside the playing phase it has none after the round-end
\* transition.
C38_OneSpawnTimer ==
  \A code \in DOMAIN rooms :
    LET r == rooms[code]
    IN  /\ r.spawnTimeouts <= 1
        /\ r.spawnTimeouts = (IF r.spawnTimer.on THEN 1 ELSE 0)
        /\ r.phase # "playing" => r.spawnTimeouts = 0

\* C38 witness: a second game:start has just arrived in a round whose spawn timer
\* was pending after a yoink, and one spawn timer is pending
C38_Witness ==
  /\ ev.type = "game:start"
  /\ sent["start"] = 2
  /\ sent["yoink"] > 0
  /\ rooms[ev.room].phase = "playing"
  /\ rooms[ev.room].spawnTimeouts = 1
  /\ rooms[ev.room].currentRound = 1

\* C39: for every round index 1..5 the multiplier applied to an accepted word
\* equals the roundMultiplier reported in the lobby:state projection of the same
\* state: 1.0, 1.2, 1.5 for rounds 1, 2, 3 and 1.0 for rounds 4 and 5, which have
\* no entry in ROUND_MULTIPLIERS.
MultiplierTable == << 10, 12, 15, 10, 10 >>
C39_MultiplierAsProjected ==
  [][\A c \in Conns :
       SubmitAccepted(c) =>
         LET r == rooms[ev'.room]
             r1 == rooms'[ev'.room]
             n == r.currentRound
         IN  /\ n \in 1 .. Len(MultiplierTable)
             /\ r1.currentRound = n
             /\ \A k \in 1 .. Len(out') :
                  /\ out'[k].ev = "word:accepted"
                       => out'[k].body.points = scoreYoinkWord(ev'.arg.word, MultiplierTable[n])
                  /\ out'[k].ev = "lobby:state"
                       => out'[k].body.roundMultiplier = MultiplierTable[n]
             /\ r1.players[c].liveScore - r.players[c].liveScore
                  = scoreYoinkWord(ev'.arg.word, publicState(r1, c, now').roundMultiplier)
             /\ publicState(r, c, now).roundMultiplier = MultiplierTable[n]]_vars

\* C39 witness: a word has just been accepted in round 5
C39_Witness ==
  /\ ev.type = "word:submit"
  /\ CountEv(out, "word:accepted") > 0
  /\ CountEv(out, "lobby:state") > 0
  /\ rooms[ev.room].currentRound = 5
  /\ rooms[ev.room].players[ev.c].liveScore > 0

\* C40: a disconnect of one player while others remain removes only that
\* player: phase, currentRound, grid, timers and every other player's bank,
\* round score and cumulative score are unchanged, and the letters of the
\* leaver's bank are not returned to the grid.
C40_DisconnectFrame ==
  [][\A c \in Conns :
       (/\ ev'.type = "disconnect" /\ ev'.c = c
        /\ ev'.room # Null
        /\ c \in DOMAIN rooms[ev'.room].players
        /\ DOMAIN rooms[ev'.room].players # {c})
       => LET r == rooms[ev'.room]
              r1 == rooms'[ev'.room]
              others == DOMAIN r.players \ {c}
          IN  /\ DOMAIN r1.players = others
              /\ \A o \in others :
                   /\ r1.players[o] = r.players[o]
                   /\ r1.cumulativeScores[o] = r.cumulativeScores[o]
              /\ r1.phase = r.phase /\ r1.currentRound = r.currentRound
              /\ r1.started = r.started /\ r1.totalRounds = r.totalRounds
              /\ r1.yoinkPool = r.yoinkPool
              /\ r1.spawnTimer = r.spawnTimer /\ r1.spawnTimeouts = r.spawnTimeouts
              /\ r1.tick = r.tick /\ r1.imTimers = r.imTimers /\ r1.endAt = r.endAt
              /\ r1.settings = r.settings
              /\ \A other \in DOMAIN rooms \ {ev'.room} : rooms'[other] = rooms[other]
              /\ now' = now /\ buckets' = buckets]_vars

\* C40 witness: a player has just left a round in which it had taken a tile; the
\* player that stays holds a tile too, and the grid has more empty slots than
\* the banks that are left hold letters
C40_Witness ==
  /\ ev.type = "disconnect"
  /\ ev.room # Null
  /\ rooms[ev.room].phase = "playing"
  /\ \E o \in DOMAIN rooms[ev.room].players :
       /\ DOMAIN rooms[ev.room].players = {o}
       /\ o # ev.c
       /\ rooms[ev.room].players[o].bank # << >>
       /\ Cardinality(Empties(rooms[ev.room])) > Len(rooms[ev.room].players[o].bank)
  /\ rooms[ev.room].spawnTimer.on

====
